---- MODULE Spec2Model ----
(***************************************************************************)
(* The lazy computation-graph engine of elfi/core.py: Operation nodes,     *)
(* their DelayedOutputCache, the stores and the key/slice algebra.         *)
(*                                                                         *)
(* A slice is a pair <<start, stop>>.  A key is <<name, start, length>>.   *)
(* A row is the content of one sample index; it is kept symbolically as    *)
(* the record of what it was computed from:                                *)
(*   [node, sub, off, args]  node: id of the producing node, sub: the      *)
(*   random sub-stream of the chunk (NoSub for a deterministic node),      *)
(*   off: position inside the chunk (the random state is consumed along    *)
(*   the chunk; 0 for a deterministic node), args: the parents' rows.      *)
(* A delayed handle is [key, kind, rows]: kind "array" for a data array,   *)
(* "record" for a whole output dict {'data', 'n', 'index', ...}, "bad"     *)
(* for a computation that does not yield the data rows.                    *)
(***************************************************************************)
EXTENDS Integers, Sequences, FiniteSets, Bags, TLC

\* ---- bounds ----
MaxLen == 2        \* largest sample index (exclusive) a call may request
MaxSub == 3        \* the sub-stream counter is not advanced beyond this

\* ---- the graphs under analysis ----
\* "chain": a parentless simulator "p", a simulator "sim" on it and a summary on
\* that (the shape of test_worker_memory_cache, with a stochastic node above the
\* simulator); "pairs": two separately constructed simulators of the same name
\* and definition (the shape of test_independent_keys).  Node 2 is built with no
\* store, with a MemoryStore or with a caller's buffer.
NoSub == 0 - 1

ShapeNodes(g) == IF g = "chain" THEN {1, 2, 3} ELSE {1, 2}
ShapeName(g, x) ==
  IF g = "chain" THEN (CASE x = 1 -> "p" [] x = 2 -> "sim" [] OTHER -> "sum") ELSE "sim"
ShapeClass(g, x) ==
  IF g = "chain" THEN (CASE x = 3 -> "Summary" [] OTHER -> "Simulator") ELSE "Simulator"
ShapeParents(g, x) ==
  IF g = "chain" THEN (CASE x = 2 -> <<1>> [] x = 3 -> <<2>> [] OTHER -> <<>>) ELSE <<>>

VARIABLES
  name,             \* Node.name
  class,            \* the node's class: "Simulator" or "Summary"
  parents,          \* Node.parents: node -> sequence of nodes
  children,         \* Node.children: node -> set of nodes
  store_kind,       \* which store the node was constructed with
  generate_index,   \* Operation._generate_index
  delayed_outputs,  \* DelayedOutputCache._delayed_outputs: node -> seq of chunks
  stored_mask,      \* DelayedOutputCache._stored_mask: node -> seq of BOOLEAN
  substreams,       \* the module-level itertools.count()
  persisted,        \* MemoryStore._persisted: node -> seq of chunks (insertion order)
  pending_persisted,\* LocalDataStore._pending_persisted: node -> set of keys
  local_store,      \* LocalDataStore._local_store: node -> [0..MaxLen-1 -> row]
  output_name,      \* LocalDataStore._output_name: node -> name or ""
  futures,          \* scheduler futures with a done callback attached (a bag)
  computing,        \* node -> keys of the outputs its MemoryStore holds persisted
                    \* whose computation the scheduler has not finished
  prevrun,          \* history: the reset/generate runs made in a row
  call              \* history: the last call of a key function

vars == <<name, class, parents, children, store_kind, generate_index, delayed_outputs,
          stored_mask, substreams, persisted, pending_persisted, local_store,
          output_name, futures, computing, prevrun, call>>

Nodes == DOMAIN name

\* RandomStateMixin is among the bases of Simulator, not of Summary
Stochastic(x) == class[x] = "Simulator"

\* ---- rows ----
\* the content of an untouched cell of a caller-supplied buffer (np.zeros)
ZeroRow == [node |-> 0, sub |-> NoSub, off |-> 0, args |-> <<>>]
\* what an operation makes of an input that is not a data array
BadRow == [node |-> 0 - 1, sub |-> NoSub, off |-> 0, args |-> <<>>]
\* a value supplied through with_values, identified by the tag v >= 1
ForcedRow(v) == [node |-> 0, sub |-> NoSub, off |-> v, args |-> <<>>]

\* ---- utils.py: to_slice, slen, slice_intersect ----
slen(sl) == IF sl[2] > sl[1] THEN sl[2] - sl[1] ELSE 0

Max2(a, b) == IF a > b THEN a ELSE b
Min2(a, b) == IF a < b THEN a ELSE b

slice_intersect(sl1, sl2, offset) ==
  LET lo == Max2(sl1[1], sl2[1])
      hi == Min2(sl1[2], sl2[2])
  IN IF hi - lo <= 0 THEN <<0, 0>> ELSE <<lo - offset, hi - offset>>

\* ---- keys ----
\* make_key builds the ValueError for an empty slice but does not raise it
make_key(nm, sl) == <<nm, sl[1], slen(sl)>>
get_key_slice(key) == <<key[2], key[2] + key[3]>>
get_key_name(key) == key[1]
reset_key_slice(key, new_sl) == make_key(get_key_name(key), new_sl)
reset_key_name(key, nm) == make_key(nm, get_key_slice(key))

\* ---- delayed handles ----
\* the handle of a chunk: delayed(self.operation)(dinput, dask_key_name=key);
\* its value is the whole output dict
OutputHandle(chunk) == [key |-> chunk.key, kind |-> "record", rows |-> chunk.data]

\* numpy basic slicing a[lo:hi] of rows (0-based, clipped to the array)
SliceRows(rows, lo, hi) ==
  IF Min2(hi, Len(rows)) <= lo THEN <<>> ELSE SubSeq(rows, lo + 1, Min2(hi, Len(rows)))

\* delayed(operator.getitem)(output, 'data', dask_key_name=new_key)
get_named_item(chunk, item) ==
  LET new_key_name == get_key_name(chunk.key) \o "-" \o item
      new_key == reset_key_name(chunk.key, new_key_name)
  IN [key |-> new_key, kind |-> "array", rows |-> chunk.data]

\* delayed(operator.getitem)(output_data, sub_sl, dask_key_name=intsect_key):
\* slicing a dict raises when the handle is forced
getitem_slice(h, sub_sl, key) ==
  IF h.kind = "array"
  THEN [key |-> key, kind |-> "array", rows |-> SliceRows(h.rows, sub_sl[1], sub_sl[2])]
  ELSE [key |-> key, kind |-> "bad", rows |-> <<>>]

RECURSIVE ConcatRows(_)
ConcatRows(hs) == IF hs = <<>> THEN <<>> ELSE Head(hs).rows \o ConcatRows(Tail(hs))

\* delayed(np.vstack)(tuple(outputs), dask_key_name=key): stacking output
\* dicts yields an object array, not the data rows
vstack(hs, key) ==
  IF \A i \in 1..Len(hs) : hs[i].kind = "array"
  THEN [key |-> key, kind |-> "array", rows |-> ConcatRows(hs)]
  ELSE [key |-> key, kind |-> "bad", rows |-> <<>>]

\* delayed(np.zeros(shape=(0,0))): no elfi key, no rows
EmptyHandle == [key |-> <<"zeros", 0, 0>>, kind |-> "array", rows |-> <<>>]
\* a read that raised instead of returning a handle
RaisedHandle == [key |-> <<"raised", 0, 0>>, kind |-> "raise", rows |-> <<>>]

\* ---- the mutable state threaded through one call ----
\* outs/mask: the caches; subs: the sub-stream counter; mem, pend, buf, oname,
\* fut: the stores and the scheduler; err: the exception that ended the call
\* ("" when none)
Current ==
  [outs |-> delayed_outputs, mask |-> stored_mask, subs |-> substreams,
   mem |-> persisted, pend |-> pending_persisted, buf |-> local_store,
   oname |-> output_name, fut |-> futures, comp |-> computing, err |-> ""]

Raise(S, e) == IF S.err = "" THEN [S EXCEPT !.err = e] ELSE S

\* ---- DelayedOutputCache.__len__ ----
RECURSIVE SumLengths(_)
SumLengths(chunks) ==
  IF chunks = <<>> THEN 0 ELSE Head(chunks).key[3] + SumLengths(Tail(chunks))

\* a length that counts chunks instead of samples
CacheLenCount(chunks) == Len(chunks)
CacheLen(chunks) == SumLengths(chunks)

\* ---- MemoryStore ----
\* self._persisted[key] = d: a dict keeps the position of a key it already has
MemoryPut(mem, chunk) ==
  IF \E i \in 1..Len(mem) : mem[i].key = chunk.key
  THEN [i \in 1..Len(mem) |-> IF mem[i].key = chunk.key THEN chunk ELSE mem[i]]
  ELSE Append(mem, chunk)

\* [d for key, d in self._persisted.items() if get_key_slice(key) == sl]
MemoryHits(mem, sl) == SelectSeq(mem, LAMBDA d : get_key_slice(d.key) = sl)

\* MemoryStore.read_data: the first persisted output whose slice is sl, as it is
MemoryStore_read_data(S, x, sl) ==
  IF MemoryHits(S.mem[x], sl) = <<>> THEN RaisedHandle
  ELSE OutputHandle(MemoryHits(S.mem[x], sl)[1])

\* ---- LocalDataStore ----
BufferRows(buf, sl) == [k \in 1..slen(sl) |-> buf[sl[1] + k - 1]]

\* LocalDataStore.read_data: delayed(self._local_store[sl], name=key, pure=True)
LocalDataStore_read_data(S, x, sl) ==
  [key |-> make_key(S.oname[x], sl), kind |-> "array", rows |-> BufferRows(S.buf[x], sl)]

store_read_data(S, x, sl) ==
  IF store_kind[x] = "memory" THEN MemoryStore_read_data(S, x, sl)
  ELSE LocalDataStore_read_data(S, x, sl)

\* ---- DelayedOutputCache._get_output_datalist, one chunk of the loop ----
\* output_data: what the store reads over the chunk's range when the chunk is
\* flagged, the chunk's 'data' otherwise
output_data_of(S, x, output, stored) ==
  IF stored THEN store_read_data(S, x, get_key_slice(output.key))
  ELSE get_named_item(output, "data")

\* the part of output_data inside intsect_sl: a sub-slice under the key of the
\* intersection when the chunk is met in part, output_data itself otherwise
sub_slice_of(output_data, output_sl, intsect_sl) ==
  IF output_data.kind = "raise" \/ slen(intsect_sl) = slen(output_sl) THEN output_data
  ELSE getitem_slice(output_data, slice_intersect(intsect_sl, intsect_sl, output_sl[1]),
                     reset_key_slice(output_data.key, intsect_sl))

\* skip: the chunk does not meet sl; h: the piece appended to data_list; built:
\* the keyed handles built for it
PieceFrom(output_data, output_sl, intsect_sl) ==
  [skip |-> slen(intsect_sl) = 0,
   h |-> sub_slice_of(output_data, output_sl, intsect_sl),
   built |-> {output_data, sub_slice_of(output_data, output_sl, intsect_sl)}]

PieceOf(S, x, sl, i) ==
  PieceFrom(output_data_of(S, x, S.outs[x][i], S.mask[x][i]),
            get_key_slice(S.outs[x][i].key),
            slice_intersect(get_key_slice(S.outs[x][i].key), sl, 0))

get_output_datalist(S, x, sl) ==
  SelectSeq([i \in 1..Len(S.outs[x]) |-> PieceOf(S, x, sl, i)], LAMBDA p : ~p.skip)

\* ---- DelayedOutputCache.__getitem__ ----
\* [h: the handle returned, built: the keyed handles built on the way]
getitem_of(pieces, sl) ==
  LET outputs == [i \in 1..Len(pieces) |-> pieces[i].h]
      made == UNION {pieces[i].built : i \in 1..Len(pieces)}
  IN IF \E i \in 1..Len(pieces) : pieces[i].h.kind = "raise"
     THEN [h |-> RaisedHandle, built |-> {}]
     ELSE IF Len(pieces) = 0 THEN [h |-> EmptyHandle, built |-> {}]
     ELSE IF Len(pieces) = 1 THEN [h |-> pieces[1].h, built |-> made]
     ELSE [h |-> vstack(outputs, reset_key_slice(pieces[1].h.key, sl)),
           built |-> made \cup {vstack(outputs, reset_key_slice(pieces[1].h.key, sl))}]

cache_getitem(S, x, sl) == getitem_of(get_output_datalist(S, x, sl), sl)

\* Operation.__getitem__ as a step of a call: r is what the cache returns
read_result(S, r) ==
  [S |-> IF r.h.kind = "raise" THEN Raise(S, "IndexError") ELSE S, ret |-> r.h]

Read(S, x, sl) == read_result(S, cache_getitem(S, x, sl))

\* ---- DelayedOutputCache._set_stored ----
\* a callback that would return when it finds no chunk of the key
set_storedIfFound(S, x, key) ==
  [S EXCEPT !.mask[x] = [i \in 1..Len(@) |->
                           IF S.outs[x][i].key = key THEN TRUE ELSE @[i]]]

set_stored(S, x, key) ==
  IF Cardinality({i \in 1..Len(S.outs[x]) : S.outs[x][i].key = key}) # 1
  THEN Raise(S, "LookupError")
  ELSE [S EXCEPT !.mask[x] = [i \in 1..Len(@) |->
                                IF S.outs[x][i].key = key THEN TRUE ELSE @[i]]]

\* ---- ElfiStore.write ----
\* MemoryStore.write: persist (the computation is handed to the scheduler and
\* the call returns), remember, and call done_callback at once
MemoryStore_write(S, x, chunk) ==
  set_stored([S EXCEPT !.mem[x] = MemoryPut(@, chunk), !.comp[x] = @ \cup {chunk.key}],
             x, chunk.key)

\* a write that would attach no callback to the future
LocalDataStore_writeUnattached(S, x, chunk) ==
  [S EXCEPT !.pend[x] = @ \cup {chunk.key},
            !.oname[x] = get_key_name(chunk.key)]

\* LocalDataStore.write: persist, keep the reference, attach _post_task to the future
LocalDataStore_write(S, x, chunk) ==
  [S EXCEPT !.pend[x] = @ \cup {chunk.key},
            !.fut = @ (+) SetToBag({[node |-> x, key |-> chunk.key, data |-> chunk.data]}),
            !.oname[x] = get_key_name(chunk.key)]

\* ---- DelayedOutputCache.append ----
\* self._delayed_outputs.append(output); self._stored_mask.append(False)
append_lists(S, x, chunk) ==
  [S EXCEPT !.outs[x] = Append(@, chunk), !.mask[x] = Append(@, FALSE)]

\* an append that puts the chunk in front of the list
cache_appendFront(S, x, chunk) ==
  IF CacheLen(S.outs[x]) # get_key_slice(chunk.key)[1]
  THEN Raise(S, "ValueError")
  ELSE [S EXCEPT !.outs[x] = <<chunk>> \o @, !.mask[x] = <<FALSE>> \o @]

\* an append that would not compare the start with the length
cache_appendAnywhere(S, x, chunk) ==
  CASE store_kind[x] = "memory" -> MemoryStore_write(append_lists(S, x, chunk), x, chunk)
    [] store_kind[x] = "local" -> LocalDataStore_write(append_lists(S, x, chunk), x, chunk)
    [] OTHER -> append_lists(S, x, chunk)

cache_append(S, x, chunk) ==
  IF CacheLen(S.outs[x]) # get_key_slice(chunk.key)[1]
  THEN Raise(S, "ValueError")
  ELSE CASE store_kind[x] = "memory" -> MemoryStore_write(append_lists(S, x, chunk), x, chunk)
         [] store_kind[x] = "local" -> LocalDataStore_write(append_lists(S, x, chunk), x, chunk)
         [] OTHER -> append_lists(S, x, chunk)

\* ---- DelayedOutputCache.reset with ElfiStore.reset ----
\* a reset that would also rewind the sub-stream counter
cache_resetRewind(S, x) ==
  [S EXCEPT !.outs[x] = <<>>, !.mask[x] = <<>>, !.mem[x] = <<>>, !.pend[x] = {},
            !.comp[x] = {}, !.subs = 0]

\* MemoryStore.reset clears _persisted: the store lets go of the persisted
\* outputs, computed or not; LocalDataStore.reset clears _pending_persisted
cache_reset(S, x) ==
  [S EXCEPT !.outs[x] = <<>>, !.mask[x] = <<>>, !.mem[x] = <<>>, !.pend[x] = {},
            !.comp[x] = {}]

\* ---- with_values ----
\* with_values maps node names to rows; None and {} are the empty map
NoValues == <<>>

\* normalize_data: an array of length 1 is tiled to n rows
normalize_data(data, n) ==
  IF Len(data) = 1 THEN [k \in 1..n |-> data[1]] ELSE data

normalize_data_dict(dict, n) == [k \in DOMAIN dict |-> normalize_data(dict[k], n)]

\* ---- the process-wide sub-stream counter: next(substreams) ----
\* the value handed out is the counter's; this is the counter afterwards
NextSubstreamStuck(c) == c
NextSubstream(c) == c + 1

\* ---- the node operation applied to an input dict ----
\* row k of the output is computed from row k of every parent's data and, for a
\* stochastic node, from the chunk's random state at position k
\* a Constant's operation is lambda input_dict: {'data': v} with
\* v = np.array(value, ndmin=1): for a scalar value one element, whatever n is
ConstantRow(x) == [node |-> x, sub |-> NoSub, off |-> 0, args |-> <<>>]

OperationRows(x, n, sub, data) ==
  IF class[x] = "Constant" THEN <<ConstantRow(x)>> ELSE
  [k \in 1..n |->
     [node |-> x, sub |-> sub, off |-> IF Stochastic(x) THEN k - 1 ELSE 0,
      args |-> [j \in 1..Len(data) |->
                  IF data[j].kind = "array" /\ k <= Len(data[j].rows)
                  THEN data[j].rows[k] ELSE BadRow]]]

\* ---- Operation._create_delayed_output ----
create_delayed_output(x, sl, input_dict, with_values) ==
  [key |-> make_key(name[x], sl),
   sub |-> input_dict.random_state,
   data |-> IF name[x] \in DOMAIN with_values THEN with_values[name[x]]
            ELSE OperationRows(x, input_dict.n, input_dict.random_state, input_dict.data)]

RECURSIVE get_slice(_, _, _, _)
RECURSIVE parent_slices(_, _, _, _)

\* ---- Operation._create_input_dict, with the RandomStateMixin override ----
\* up: the parents' slices and the state after taking them; the mixin draws the
\* sub-stream after that
input_dict_from(x, sl, up) ==
  [S |-> IF Stochastic(x) THEN [up.S EXCEPT !.subs = NextSubstream(@)] ELSE up.S,
   input |-> [data |-> up.data, n |-> sl[2] - sl[1], index |-> sl[1],
              random_state |-> IF Stochastic(x) THEN up.S.subs ELSE NoSub]]

\* an input dict that would be made without asking the parents
create_input_dictAlone(S, x, sl, with_values) ==
  input_dict_from(x, sl, [S |-> S, data |-> <<>>])

create_input_dict(S, x, sl, with_values) ==
  input_dict_from(x, sl, parent_slices(S, parents[x], sl, with_values))

\* tuple([p.get_slice(sl, with_values) for p in self.parents]): the parents are
\* asked in order, each in the state the one before left
prepend_slice(ret, rest) == [S |-> rest.S, data |-> <<ret>> \o rest.data]

parent_slices_after(first, ps, sl, with_values) ==
  prepend_slice(first.ret, parent_slices(first.S, Tail(ps), sl, with_values))

parent_slices(S, ps, sl, with_values) ==
  IF ps = <<>> \/ S.err # "" THEN [S |-> S, data |-> <<>>]
  ELSE parent_slices_after(get_slice(S, Head(ps), sl, with_values), ps, sl, with_values)

\* ---- Operation.get_slice ----
\* the read that ends get_slice, in the state S1 the append left
read_appended(S1, x, sl) ==
  IF S1.err # "" THEN [S |-> S1, ret |-> RaisedHandle] ELSE Read(S1, x, sl)

\* new_output = self._create_delayed_output(...); self._delayed_outputs.append(new_output)
append_new_output(x, sl, new_sl, values, new_input) ==
  IF new_input.S.err # "" THEN [S |-> new_input.S, ret |-> RaisedHandle]
  ELSE read_appended(cache_append(new_input.S, x,
                                  create_delayed_output(x, new_sl, new_input.input, values)),
                     x, sl)

\* the branch "if len(self._delayed_outputs) < sl.stop"
get_slice_new(S, x, sl, new_sl, values) ==
  append_new_output(x, sl, new_sl, values, create_input_dict(S, x, new_sl, values))

\* a get_slice that would make the missing samples one chunk each
RECURSIVE get_sliceBySample(_, _, _, _)
get_sliceBySample(S, x, sl, with_values) ==
  IF S.err # "" THEN [S |-> S, ret |-> RaisedHandle]
  ELSE IF CacheLen(S.outs[x]) + 1 < sl[2]
  THEN get_sliceBySample(get_slice_new(S, x, sl, <<CacheLen(S.outs[x]), CacheLen(S.outs[x]) + 1>>,
                                       normalize_data_dict(with_values, 1)).S,
                         x, sl, with_values)
  ELSE IF CacheLen(S.outs[x]) < sl[2]
  THEN get_slice_new(S, x, sl, <<CacheLen(S.outs[x]), sl[2]>>,
                     normalize_data_dict(with_values, 1))
  ELSE Read(S, x, sl)

\* a get_slice that would also make a chunk when the cache ends at sl.stop
get_sliceEager(S, x, sl, with_values) ==
  IF S.err # "" THEN [S |-> S, ret |-> RaisedHandle]
  ELSE IF CacheLen(S.outs[x]) <= sl[2]
  THEN get_slice_new(S, x, sl, <<CacheLen(S.outs[x]), sl[2]>>,
                     normalize_data_dict(with_values, sl[2] - CacheLen(S.outs[x])))
  ELSE Read(S, x, sl)

get_slice(S, x, sl, with_values) ==
  IF S.err # "" THEN [S |-> S, ret |-> RaisedHandle]
  ELSE IF CacheLen(S.outs[x]) < sl[2]
  THEN get_slice_new(S, x, sl, <<CacheLen(S.outs[x]), sl[2]>>,
                     normalize_data_dict(with_values, sl[2] - CacheLen(S.outs[x])))
  ELSE Read(S, x, sl)

\* ---- Operation.generate ----
\* n_batch = min(b - len(self._delayed_outputs), batch_size)
n_batchRest(b, l, batch_size) == b - l
n_batch(b, l, batch_size) == Min2(b - l, batch_size)

\* one pass of the loop, l being len(self._delayed_outputs)
generate_batch(S, x, a, l, nb, with_values) ==
  get_slice(S, x, <<l, l + nb>>,
            [k \in DOMAIN with_values |-> SliceRows(with_values[k], l - a, (l - a) + nb)]).S

\* a loop that would stop after its first pass
generate_loopOnce(S, x, a, b, batch_size, with_values) ==
  IF S.err # "" \/ ~(CacheLen(S.outs[x]) < b) THEN S
  ELSE generate_batch(S, x, a, CacheLen(S.outs[x]),
                      n_batch(b, CacheLen(S.outs[x]), batch_size), with_values)

\* the loop "while len(self._delayed_outputs) < b"
RECURSIVE generate_loop(_, _, _, _, _, _)
generate_loop(S, x, a, b, batch_size, with_values) ==
  IF S.err # "" \/ ~(CacheLen(S.outs[x]) < b) THEN S
  ELSE generate_loop(generate_batch(S, x, a, CacheLen(S.outs[x]),
                                    n_batch(b, CacheLen(S.outs[x]), batch_size), with_values),
                     x, a, b, batch_size, with_values)

\* [S: the state after the call, index: _generate_index after it, sl: the slice
\*  whose read is returned, ret: the handle returned]
generate_return(a, b, out) == [S |-> out.S, index |-> b, sl |-> <<a, b>>, ret |-> out.ret]

\* an end of generate that would leave the index at the cache length
generate_endAtCacheLength(S1, x, a, b) ==
  [generate_return(a, b, Read(S1, x, <<a, b>>)) EXCEPT !.index = CacheLen(S1.outs[x])]

\* self._generate_index = b; return self[slice(a, b)], in the state S1 the loop left
generate_end(S1, x, a, b) ==
  IF S1.err # "" THEN [S |-> S1, index |-> a, sl |-> <<a, b>>, ret |-> RaisedHandle]
  ELSE generate_return(a, b, Read(S1, x, <<a, b>>))

generate(S, x, index, n, batch_size, with_values) ==
  generate_end(generate_loop(S, x, index, index + n,
                             IF batch_size = 0 THEN n ELSE batch_size,
                             normalize_data_dict(with_values, n)),
               x, index, index + n)

\* ---- Operation.acquire ----
\* return self.get_slice(sl), g being what the generate before it left
acquire_return(index, sl, out) == [S |-> out.S, index |-> index, sl |-> sl, ret |-> out.ret]

acquire_read(g, x, sl) == acquire_return(g.index, sl, get_slice(g.S, x, sl, NoValues))

\* a shortfall that would always be the whole of n
acquire_shortfallWhole(S, x, index, sl, batch_size) ==
  IF index < sl[2] THEN generate(S, x, index, sl[2] - sl[1], batch_size, NoValues)
  ELSE [S |-> S, index |-> index, sl |-> sl, ret |-> EmptyHandle]

\* if self._generate_index < sl.stop: self.generate(sl.stop - self._generate_index, ...)
acquire_shortfall(S, x, index, sl, batch_size) ==
  IF index < sl[2] THEN generate(S, x, index, sl[2] - index, batch_size, NoValues)
  ELSE [S |-> S, index |-> index, sl |-> sl, ret |-> EmptyHandle]

\* an acquire that would generate the shortfall without moving the index
acquireReadOnly(S, x, index, n, starting, batch_size) ==
  acquire_read([acquire_shortfall(S, x, index, <<starting, starting + n>>, batch_size)
                  EXCEPT !.index = index],
               x, <<starting, starting + n>>)

acquire(S, x, index, n, starting, batch_size) ==
  acquire_read(acquire_shortfall(S, x, index, <<starting, starting + n>>, batch_size),
               x, <<starting, starting + n>>)

\* ---- ABCMethod._get_distances (elfi/methods.py) ----
\* distance_node.acquire(n_samples, batch_size), then p.acquire(n_samples,
\* batch_size) for each parameter node; index: the generated indexes.
\* [S: the state after the calls, index: the generated indexes after them]
get_distances_parameters(r, parameter, n_samples, batch_size) ==
  LET q == acquire(r.S, parameter, r.index[parameter], n_samples, 0, batch_size)
  IN [S |-> q.S, index |-> [r.index EXCEPT ![parameter] = q.index]]

get_distances(S, index, distance_node, parameter, n_samples, batch_size) ==
  LET r == acquire(S, distance_node, index[distance_node], n_samples, 0, batch_size)
  IN get_distances_parameters([S |-> r.S, index |-> [index EXCEPT ![distance_node] = r.index]],
                              parameter, n_samples, batch_size)

\* ---- Operation.reset ----
\* the nodes reset(propagate=True) reaches: the node and, through children, its
\* descendants
RECURSIVE Reached(_)
Reached(xs) ==
  LET more == xs \cup UNION {children[x] : x \in xs}
  IN IF more = xs THEN xs ELSE Reached(more)

\* a reset that would never go to the children
ResetTargetsSelf(x, propagate) == {x}
\* a reset that would always go to the children
ResetTargetsAll(x, propagate) == Reached({x})
ResetTargets(x, propagate) == IF propagate THEN Reached({x}) ELSE {x}

RECURSIVE reset_all(_, _)
reset_all(S, xs) ==
  IF xs = {} THEN S
  ELSE LET x == CHOOSE y \in xs : TRUE
       IN reset_all(cache_reset(S, x), xs \ {x})

\* a completion that would store the result and not call done_callback
post_taskNoCallback(S, f) ==
  [S EXCEPT !.fut = @ (-) SetToBag({f}),
            !.buf[f.node] = [i \in DOMAIN @ |->
                               IF get_key_slice(f.key)[1] <= i /\ i < get_key_slice(f.key)[2]
                               THEN f.data[i - get_key_slice(f.key)[1] + 1] ELSE @[i]],
            !.pend[f.node] = @ \ {f.key}]

\* ---- LocalDataStore._post_task: the done callback of a persisted future ----
\* self._local_store[sl] = res['data'] (numpy broadcasts a single row and
\* refuses any other length mismatch), then done_callback(key, res), then
\* del self._pending_persisted[key]
post_task(S, f) ==
  LET x == f.node
      sl == get_key_slice(f.key)
      fits == Len(f.data) = slen(sl) \/ Len(f.data) = 1
      written == [i \in DOMAIN S.buf[x] |->
                    IF sl[1] <= i /\ i < sl[2]
                    THEN (IF Len(f.data) = 1 THEN f.data[1] ELSE f.data[i - sl[1] + 1])
                    ELSE S.buf[x][i]]
      S0 == [S EXCEPT !.fut = @ (-) SetToBag({f})]
      S1 == [S0 EXCEPT !.buf[x] = written]
      S2 == set_stored(S1, x, f.key)
  IN IF ~fits THEN Raise(S0, "ValueError")
     ELSE IF S2.err # "" THEN S2
     ELSE IF f.key \notin S2.pend[x] THEN Raise(S2, "KeyError")
     ELSE [S2 EXCEPT !.pend[x] = @ \ {f.key}]

\* ---- the state machine ----
\* prevrun remembers the calls made in a row.  phase "reset1": a reset was just
\* made; "run1": generate followed it; "reset2": the same reset followed that;
\* "run2": the same generate followed again; "acquire": acquire was just called
\* with a starting index other than 0 (index0: the generated index before it)
NoRun == [phase |-> "none", node |-> 0, n |-> 0, batch_size |-> 0, starting |-> 0,
          index0 |-> 0, propagate |-> FALSE, ret1 |-> EmptyHandle, ret2 |-> EmptyHandle]

\* no call of a key function made yet
NoCall == [op |-> "none", self |-> 0, arg |-> <<>>, ret |-> <<>>, err |-> ""]

\* every node constructed (Operation.__init__ ends with reset(propagate=False)),
\* the simulator with no store, a MemoryStore or a caller's buffer of zeros
Init ==
  /\ \E g \in {"chain", "pairs"} :
       /\ name = [x \in ShapeNodes(g) |-> ShapeName(g, x)]
       /\ class = [x \in ShapeNodes(g) |-> ShapeClass(g, x)]
       /\ parents = [x \in ShapeNodes(g) |-> ShapeParents(g, x)]
       /\ children = [x \in ShapeNodes(g) |->
                        {c \in ShapeNodes(g) :
                           \E i \in 1..Len(ShapeParents(g, c)) : ShapeParents(g, c)[i] = x}]
  /\ store_kind \in {sk \in [Nodes -> {"none", "memory", "local"}] : \A x \in Nodes : x # 2 => sk[x] = "none"}
  /\ generate_index = [x \in Nodes |-> 0]
  /\ delayed_outputs = [x \in Nodes |-> <<>>]
  /\ stored_mask = [x \in Nodes |-> <<>>]
  /\ substreams = 0
  /\ persisted = [x \in Nodes |-> <<>>]
  /\ pending_persisted = [x \in Nodes |-> {}]
  /\ local_store = [x \in Nodes |-> [i \in 0..(MaxLen - 1) |-> ZeroRow]]
  /\ output_name = [x \in Nodes |-> ""]
  /\ futures = EmptyBag
  /\ computing = [x \in Nodes |-> {}]
  /\ prevrun = NoRun
  /\ call = NoCall

\* the call's final state becomes the program's, within the model's bounds
Apply(S) ==
  /\ S.subs <= MaxSub
  /\ delayed_outputs' = S.outs
  /\ stored_mask' = S.mask
  /\ substreams' = S.subs
  /\ persisted' = S.mem
  /\ pending_persisted' = S.pend
  /\ local_store' = S.buf
  /\ output_name' = S.oname
  /\ futures' = S.fut
  /\ computing' = S.comp
  /\ UNCHANGED <<name, class, parents, children, store_kind, call>>

AcquireCall(x, n, starting, batch_size) ==
  /\ starting + n <= MaxLen
  /\ LET r == acquire(Current, x, generate_index[x], n, starting, batch_size)
     IN /\ Apply(r.S)
        /\ generate_index' = [generate_index EXCEPT ![x] = r.index]

GenerateCall(x, n, batch_size) ==
  /\ generate_index[x] + n <= MaxLen
  /\ LET r == generate(Current, x, generate_index[x], n, batch_size, NoValues)
     IN /\ Apply(r.S)
        /\ generate_index' = [generate_index EXCEPT ![x] = r.index]

GetSliceCall(x, sl) ==
  /\ LET r == get_slice(Current, x, sl, NoValues)
     IN /\ Apply(r.S)
        /\ UNCHANGED generate_index

ResetCall(x, propagate) ==
  /\ Apply(reset_all(Current, ResetTargets(x, propagate)))
  /\ generate_index' = [y \in Nodes |->
                          IF y \in ResetTargets(x, propagate) THEN 0 ELSE generate_index[y]]

PostTaskStep(f) ==
  /\ Apply(post_task(Current, f))
  /\ UNCHANGED generate_index

Counts == 1..MaxLen
BatchSizes == 0..MaxLen   \* 0 stands for batch_size=None
Slices == {sl \in (0..MaxLen) \X (0..MaxLen) : sl[1] < sl[2]}

Acquire ==
  \E x \in Nodes, n \in Counts, starting \in 0..(MaxLen - 1), bs \in BatchSizes :
    AcquireCall(x, n, starting, bs) /\ UNCHANGED prevrun

Generate ==
  \E x \in Nodes, n \in Counts, bs \in BatchSizes :
    GenerateCall(x, n, bs) /\ UNCHANGED prevrun

GetSlice ==
  \E x \in Nodes, sl \in Slices : GetSliceCall(x, sl) /\ UNCHANGED prevrun

Reset ==
  \E x \in Nodes, propagate \in BOOLEAN :
    ResetCall(x, propagate) /\ UNCHANGED prevrun

PostTask ==
  \E f \in BagToSet(futures) : PostTaskStep(f) /\ UNCHANGED prevrun

Next == Acquire \/ Generate \/ GetSlice \/ Reset \/ PostTask

Spec == Init /\ [][Next]_vars

\* ---- the same machine with the scheduler finishing persisted outputs ----
\* the scheduler finishes the computation of an output a MemoryStore holds;
\* nothing of the program is told
ComputationDone ==
  \E x \in Nodes : \E key \in computing[x] :
    /\ computing' = [computing EXCEPT ![x] = @ \ {key}]
    /\ UNCHANGED <<name, class, parents, children, store_kind, generate_index,
                   delayed_outputs, stored_mask, substreams, persisted, pending_persisted,
                   local_store, output_name, futures, prevrun, call>>

SpecCompute == Init /\ [][Next \/ ComputationDone]_vars

\* the same machine where a persisted computation that has a done callback
\* attached completes, so that the event loop runs the callback: a callback
\* that stays pending is eventually run
\* the program that resets with propagate=True only
ResetPropagate == \E x \in Nodes : ResetCall(x, TRUE) /\ UNCHANGED prevrun

SpecPropagate ==
  Init /\ [][Acquire \/ Generate \/ GetSlice \/ ResetPropagate \/ PostTask]_vars

SpecLive == Init /\ [][Next]_vars /\ WF_vars(PostTask)

\* ---- the same machine, remembering the calls made in a row ----
AcquireAfterRun ==
  \E x \in Nodes, n \in Counts, starting \in 0..(MaxLen - 1), bs \in BatchSizes :
    /\ AcquireCall(x, n, starting, bs)
    /\ prevrun' = IF starting = 0 THEN NoRun
                  ELSE [NoRun EXCEPT !.phase = "acquire", !.node = x, !.n = n,
                                     !.starting = starting, !.index0 = generate_index[x]]

GenerateRun ==
  \E x \in Nodes, n \in Counts, bs \in BatchSizes :
    /\ GenerateCall(x, n, bs)
    /\ LET r == generate(Current, x, generate_index[x], n, bs, NoValues)
       IN prevrun' =
            IF prevrun.phase = "reset1" /\ prevrun.node = x
            THEN [prevrun EXCEPT !.phase = "run1", !.n = n, !.batch_size = bs,
                                 !.ret1 = r.ret]
            ELSE IF prevrun.phase = "reset2" /\ prevrun.node = x
                    /\ prevrun.n = n /\ prevrun.batch_size = bs
            THEN [prevrun EXCEPT !.phase = "run2", !.ret2 = r.ret]
            ELSE NoRun

GetSliceAfterRun ==
  \E x \in Nodes, sl \in Slices : GetSliceCall(x, sl) /\ prevrun' = NoRun

ResetRun ==
  \E x \in Nodes, propagate \in BOOLEAN :
    /\ ResetCall(x, propagate)
    /\ prevrun' =
         IF prevrun.phase = "run1" /\ prevrun.node = x /\ prevrun.propagate = propagate
         THEN [prevrun EXCEPT !.phase = "reset2"]
         ELSE [NoRun EXCEPT !.phase = "reset1", !.node = x, !.propagate = propagate]

\* the calls are followed on the graphs whose store, if any, calls back at once:
\* no completion callback is ever outstanding there
InitRuns == Init /\ \A x \in Nodes : store_kind[x] # "local"

SpecRuns == InitRuns /\ [][AcquireAfterRun \/ GenerateRun \/ GetSliceAfterRun \/ ResetRun]_vars

\* ---- Node: the graph operations ----
\* the graph threaded through one call: the parent lists, the child sets, the
\* value returned and the exception that ended the call ("" when none)
MaxParents == 2    \* longest parent list the calls may build
NoIndex == 0 - 1   \* index=None

GraphNow == [parents |-> parents, children |-> children, ret |-> NoIndex, err |-> ""]

GraphRaise(G, e) == IF G.err = "" THEN [G EXCEPT !.err = e] ELSE G

\* list.insert(index, v) and del list[index], positions counted from 0
InsertAt(seq, index, v) ==
  SubSeq(seq, 1, Min2(index, Len(seq))) \o <<v>> \o SubSeq(seq, Min2(index, Len(seq)) + 1, Len(seq))

DeleteAt(seq, index) == SubSeq(seq, 1, index) \o SubSeq(seq, index + 2, Len(seq))

\* Node.add_parent(node, index=None) on c
add_parent(G, c, node, index) ==
  IF G.err # "" THEN G
  ELSE [G EXCEPT !.parents[c] = InsertAt(@, IF index = NoIndex THEN Len(@) ELSE index, node),
                 !.children[node] = @ \cup {c}]

\* Node.add_parents(nodes) on c
RECURSIVE add_parents(_, _, _)
add_parents(G, c, nodes) ==
  IF nodes = <<>> THEN G
  ELSE add_parents(add_parent(G, c, Head(nodes), NoIndex), c, Tail(nodes))

\* Node.add_child(node) on x
add_child(G, x, node) == add_parent(G, node, x, NoIndex)

\* Node.remove_parent, the part after the index is known: del self.parents[index],
\* then parent.children.remove(self), which raises KeyError when self is not there
remove_parent_at(G, c, index) ==
  IF index >= Len(G.parents[c]) THEN GraphRaise(G, "IndexError")
  ELSE IF c \notin G.children[G.parents[c][index + 1]]
  THEN GraphRaise([G EXCEPT !.parents[c] = DeleteAt(@, index)], "KeyError")
  ELSE [G EXCEPT !.parents[c] = DeleteAt(@, index),
                 !.children[G.parents[c][index + 1]] = @ \ {c},
                 !.ret = index]

\* the positions (from 0) at which node p stands in a parent list
PositionsOf(seq, p) == {i - 1 : i \in {j \in 1..Len(seq) : seq[j] = p}}

SetMin(ns) == CHOOSE n \in ns : \A k \in ns : n <= k

\* Node.remove_parent(parent) on c, parent a node: the first position is looked up
remove_parent_node(G, c, p) ==
  IF G.err # "" THEN G
  ELSE IF PositionsOf(G.parents[c], p) = {} THEN GraphRaise(G, "Exception")
  ELSE remove_parent_at(G, c, SetMin(PositionsOf(G.parents[c], p)))

\* Node.remove_parent(index) on c, index an integer from 0
remove_parent_index(G, c, index) == IF G.err # "" THEN G ELSE remove_parent_at(G, c, index)

\* Node.remove: for i in range(len(self.parents)): self.remove_parent(0)
RECURSIVE remove_parents_loop(_, _, _)
remove_parents_loop(G, x, k) ==
  IF k = 0 THEN G ELSE remove_parents_loop(remove_parent_index(G, x, 0), x, k - 1)

\* the orders in which a set of nodes can be iterated
Orders(ns) ==
  {order \in UNION {[1..k -> ns] : k \in {Cardinality(ns)}} :
     \A i, j \in 1..Cardinality(ns) : i # j => order[i] # order[j]}

\* Node.remove: for c in self.children.copy(): c.remove_parent(self)
RECURSIVE remove_children_loop(_, _, _)
remove_children_loop(G, x, order) ==
  IF order = <<>> THEN G
  ELSE remove_children_loop(remove_parent_node(G, Head(order), x), x, Tail(order))

\* Node.remove(keep_parents, keep_children) on x.  The copy of the child set
\* is taken after the parents are gone and is iterated in an order the set
\* decides: the set of all outcomes is returned.
remove_keep_children(G, x, keep_children) ==
  IF keep_children \/ G.err # "" THEN {G}
  ELSE {remove_children_loop(G, x, order) : order \in Orders(G.children[x])}

remove(G, x, keep_parents, keep_children) ==
  remove_keep_children(IF keep_parents THEN G ELSE remove_parents_loop(G, x, Len(G.parents[x])),
                       x, keep_children)

\* Node.replace_by: for p in parents: self.remove_parent(p)
RECURSIVE replace_parents_loop(_, _, _)
replace_parents_loop(G, x, ps) ==
  IF ps = <<>> THEN G
  ELSE replace_parents_loop(remove_parent_node(G, x, Head(ps)), x, Tail(ps))

\* Node.replace_by: index = c.remove_parent(self); c.add_parent(node, index=index)
swap_parent(G, c, node) == add_parent(G, c, node, G.ret)

RECURSIVE replace_children_loop(_, _, _, _)
replace_children_loop(G, x, node, order) ==
  IF order = <<>> THEN G
  ELSE replace_children_loop(swap_parent(remove_parent_node(G, Head(order), x), Head(order), node),
                             x, node, Tail(order))

\* Node.replace_by(node, transfer_parents, transfer_children) on x; ps is the copy
\* of the parent list taken first.  The copy of the child set is taken after
\* the parents are transferred and is iterated in an order the set decides:
\* the set of all outcomes is returned.
replace_transfer_parents(G, x, node, ps) ==
  add_parents(replace_parents_loop(G, x, ps), node, ps)

replace_transfer_children(G, x, node, transfer_children) ==
  IF transfer_children /\ G.err = ""
  THEN {replace_children_loop(G, x, node, order) : order \in Orders(G.children[x])}
  ELSE {G}

replace_by(G, x, node, transfer_parents, transfer_children) ==
  replace_transfer_children(
    IF transfer_parents THEN replace_transfer_parents(G, x, node, G.parents[x]) ELSE G,
    x, node, transfer_children)

\* Node.neighbours: set(self.children).union(self.parents)
neighbours(x) == children[x] \cup {parents[x][i] : i \in 1..Len(parents[x])}

\* Node.component: the depth-first search; c: the nodes kept so far (the values
\* of the dict keyed by name), search: the stack.  A node is skipped when its
\* name is already a key.  The result depends on the order in which the
\* neighbours are listed: the set of all results is returned.
RECURSIVE component_search(_, _)
component_search(c, search) ==
  IF search = <<>> THEN {c}
  ELSE IF \E y \in c : name[y] = name[search[Len(search)]]
  THEN component_search(c, SubSeq(search, 1, Len(search) - 1))
  ELSE UNION {component_search(c \cup {search[Len(search)]},
                               SubSeq(search, 1, Len(search) - 1) \o order) :
                order \in Orders(neighbours(search[Len(search)]))}

component(x) == component_search({}, <<x>>)

\* ---- Constant nodes as a state machine ----
\* three Constant nodes of scalar values; Constant.__init__ takes no parents
\* and hands no store to Operation.__init__
ConstantNodes == {1, 2, 3}

InitConstant ==
  /\ name = [x \in ConstantNodes |-> <<"a", "b", "c">>[x]]
  /\ class = [x \in ConstantNodes |-> "Constant"]
  /\ parents = [x \in ConstantNodes |-> <<>>]
  /\ children = [x \in ConstantNodes |-> {}]
  /\ store_kind = [x \in ConstantNodes |-> "none"]
  /\ generate_index = [x \in ConstantNodes |-> 0]
  /\ delayed_outputs = [x \in ConstantNodes |-> <<>>]
  /\ stored_mask = [x \in ConstantNodes |-> <<>>]
  /\ substreams = 0
  /\ persisted = [x \in ConstantNodes |-> <<>>]
  /\ pending_persisted = [x \in ConstantNodes |-> {}]
  /\ local_store = [x \in ConstantNodes |-> [i \in 0..(MaxLen - 1) |-> ZeroRow]]
  /\ output_name = [x \in ConstantNodes |-> ""]
  /\ futures = EmptyBag
  /\ computing = [x \in ConstantNodes |-> {}]
  /\ prevrun = NoRun
  /\ call = NoCall

\* without a store nothing is ever submitted, so no callback is delivered
SpecConstant == InitConstant /\ [][Acquire \/ Generate \/ GetSlice \/ Reset]_vars

\* ---- the graph as a state machine: plain nodes, edges made by the calls ----
GraphNodes == {1, 2, 3}
\* the nodes are named apart, or the third one is named as the first

InitGraph ==
  /\ name \in {<<"a", "b", "c">>, <<"a", "b", "a">>}
  /\ class = [x \in GraphNodes |-> "Node"]
  /\ parents = [x \in GraphNodes |-> <<>>]
  /\ children = [x \in GraphNodes |-> {}]
  /\ store_kind = [x \in GraphNodes |-> "none"]
  /\ generate_index = [x \in GraphNodes |-> 0]
  /\ delayed_outputs = [x \in GraphNodes |-> <<>>]
  /\ stored_mask = [x \in GraphNodes |-> <<>>]
  /\ substreams = 0
  /\ persisted = [x \in GraphNodes |-> <<>>]
  /\ pending_persisted = [x \in GraphNodes |-> {}]
  /\ local_store = [x \in GraphNodes |-> [i \in 0..(MaxLen - 1) |-> ZeroRow]]
  /\ output_name = [x \in GraphNodes |-> ""]
  /\ futures = EmptyBag
  /\ computing = [x \in GraphNodes |-> {}]
  /\ prevrun = NoRun
  /\ call = NoCall

\* the graph a call leaves becomes the program's, also when the call raised
ApplyGraph(G) ==
  /\ \A x \in Nodes : Len(G.parents[x]) <= MaxParents
  /\ parents' = G.parents
  /\ children' = G.children
  /\ UNCHANGED <<name, class, store_kind, generate_index, delayed_outputs, stored_mask,
                 substreams, persisted, pending_persisted, local_store, output_name,
                 futures, computing, prevrun, call>>

AddParentCall(c, node, index) == ApplyGraph(add_parent(GraphNow, c, node, index))

AddParentsCall(c, nodes) == ApplyGraph(add_parents(GraphNow, c, nodes))

AddChildCall(x, node) == ApplyGraph(add_child(GraphNow, x, node))

RemoveParentNodeCall(c, p) == ApplyGraph(remove_parent_node(GraphNow, c, p))

RemoveParentIndexCall(c, index) == ApplyGraph(remove_parent_index(GraphNow, c, index))

RemoveCall(x, keep_parents, keep_children) ==
  \E G \in remove(GraphNow, x, keep_parents, keep_children) : ApplyGraph(G)

ReplaceByCall(x, node, transfer_parents, transfer_children) ==
  \E G \in replace_by(GraphNow, x, node, transfer_parents, transfer_children) : ApplyGraph(G)

AddParent ==
  \E c \in Nodes, node \in Nodes, index \in {NoIndex} \cup (0..(MaxParents - 1)) :
    AddParentCall(c, node, index)

AddParents ==
  \E c \in Nodes, nodes \in [1..2 -> Nodes] : AddParentsCall(c, nodes)

AddChild == \E x \in Nodes, node \in Nodes : AddChildCall(x, node)

RemoveParent ==
  \/ \E c \in Nodes, p \in Nodes : RemoveParentNodeCall(c, p)
  \/ \E c \in Nodes, index \in 0..(MaxParents - 1) : RemoveParentIndexCall(c, index)

Remove ==
  \E x \in Nodes, keep_parents \in BOOLEAN, keep_children \in BOOLEAN :
    RemoveCall(x, keep_parents, keep_children)

ReplaceBy ==
  \E x \in Nodes, node \in Nodes, transfer_parents \in BOOLEAN, transfer_children \in BOOLEAN :
    ReplaceByCall(x, node, transfer_parents, transfer_children)

SpecGraph ==
  InitGraph /\ [][AddParent \/ AddParents \/ AddChild \/ RemoveParent \/ Remove \/ ReplaceBy]_vars

\* ---- replace_by on a graph that has generated data ----
\* a simulator "x" with a summary "c" on it and a second parentless simulator
\* "y", none with a store; between the calls of acquire, generate, get_slice
\* and reset a node that has children is replaced by one that has no edges yet
\* (as SMC swaps in a newly built prior)
InitReplace ==
  /\ name = <<"x", "y", "c">>
  /\ class = <<"Simulator", "Simulator", "Summary">>
  /\ parents = <<<<>>, <<>>, <<1>>>>
  /\ children = <<{3}, {}, {}>>
  /\ store_kind = [x \in GraphNodes |-> "none"]
  /\ generate_index = [x \in GraphNodes |-> 0]
  /\ delayed_outputs = [x \in GraphNodes |-> <<>>]
  /\ stored_mask = [x \in GraphNodes |-> <<>>]
  /\ substreams = 0
  /\ persisted = [x \in GraphNodes |-> <<>>]
  /\ pending_persisted = [x \in GraphNodes |-> {}]
  /\ local_store = [x \in GraphNodes |-> [i \in 0..(MaxLen - 1) |-> ZeroRow]]
  /\ output_name = [x \in GraphNodes |-> ""]
  /\ futures = EmptyBag
  /\ computing = [x \in GraphNodes |-> {}]
  /\ prevrun = NoRun
  /\ call = NoCall

ReplaceByFresh ==
  \E x \in Nodes, node \in Nodes, transfer_parents \in BOOLEAN, transfer_children \in BOOLEAN :
    /\ node # x
    /\ children[x] # {}
    /\ parents[node] = <<>> /\ children[node] = {}
    /\ ReplaceByCall(x, node, transfer_parents, transfer_children)

SpecReplace ==
  InitReplace /\ [][Acquire \/ Generate \/ GetSlice \/ Reset \/ ReplaceByFresh]_vars

\* ---- the key functions as a state machine: each step is one call ----
MaxStop == 3   \* largest bound of a range handed to the key functions

\* the ranges handed in: some are empty, some end before they start
KeyRanges == (0..MaxStop) \X (0..MaxStop)

KeyNames == {"a", "b"}

\* the call make_key(name, sl) as it ends: ValueError('Slice has no length') is
\* built when the length is not positive, but it is not raised, and the key
\* is returned whatever the length
make_key_call(nm, sl) == [ret |-> make_key(nm, sl), err |-> ""]

reset_key_slice_call(key, new_sl) == make_key_call(get_key_name(key), new_sl)

reset_key_name_call(key, nm) == make_key_call(nm, get_key_slice(key))

\* the keys the program can hold: the ones make_key returns
Keys == {make_key(nm, sl) : nm \in KeyNames, sl \in KeyRanges}

\* what a key call leaves alone: everything but the log of the call
notcall == <<name, class, parents, children, store_kind, generate_index, delayed_outputs,
             stored_mask, substreams, persisted, pending_persisted, local_store,
             output_name, futures, computing, prevrun>>

CallLog(op, arg, r) == [op |-> op, self |-> 0, arg |-> arg, ret |-> r.ret, err |-> r.err]

MakeKey ==
  \E nm \in KeyNames, sl \in KeyRanges :
    /\ call' = CallLog("make_key", <<nm, sl>>, make_key_call(nm, sl))
    /\ UNCHANGED notcall

ResetKeySlice ==
  \E key \in Keys, new_sl \in KeyRanges :
    /\ call' = CallLog("reset_key_slice", <<key, new_sl>>, reset_key_slice_call(key, new_sl))
    /\ UNCHANGED notcall

ResetKeyName ==
  \E key \in Keys, nm \in KeyNames :
    /\ call' = CallLog("reset_key_name", <<key, nm>>, reset_key_name_call(key, nm))
    /\ UNCHANGED notcall

SpecKeys == InitGraph /\ [][MakeKey \/ ResetKeySlice \/ ResetKeyName]_vars

\* ---- Rejection.sample (elfi/methods.py) as a state machine ----
\* each step is one call on the distances and parameters that _get_distances
\* returns.  A quantile is the fraction <<a, b>> for a/b; a distance is a
\* small number; row i of parameter k is kept as the record of where it came
\* from.
MaxSim == 4        \* most simulations a call of sample may ask for
MaxAccept == 2     \* largest n a call of sample is given
NoThreshold == 0 - 1   \* threshold=None

ParameterCount == 2

\* a count of simulations that would ignore the quantile
n_simOnlyN(n, quantile, threshold) == n

\* n_sim = int(n / quantile) if threshold is None else n
n_sim(n, quantile, threshold) ==
  IF threshold = NoThreshold THEN (n * quantile[2]) \div quantile[1] ELSE n

\* what p.acquire(n_sim).compute() yields for parameter k
ParameterRows(k, count) == [i \in 1..count |-> [param |-> k, index |-> i]]

\* np.argsort(distances): the index orders that sort the distances; equal
\* distances may come in any order
argsort(distances) ==
  {inds \in Orders(1..Len(distances)) :
     \A i, j \in 1..Len(distances) : i < j => distances[inds[i]] <= distances[inds[j]]}

\* the branch "filter with quantile", for one outcome of argsort: p[accepted]
\* with accepted the first n positions of sorted_inds
sample_quantile(n, distances, sorted_inds) ==
  [samples |-> [k \in 1..ParameterCount |->
                  [i \in 1..n |-> ParameterRows(k, Len(distances))[sorted_inds[i]]]],
   threshold |-> distances[sorted_inds[n]],
   err |-> ""]

\* the branch "filter with predefined threshold": p[accepted] with accepted
\* the mask distances < threshold
sample_threshold(distances, threshold) ==
  [samples |-> [k \in 1..ParameterCount |->
                  SelectSeq(ParameterRows(k, Len(distances)),
                            LAMBDA r : distances[r.index] < threshold)],
   threshold |-> threshold,
   err |-> ""]

\* Rejection.sample(n, quantile, threshold) on the distances acquired: the set
\* of results it can return
sample(n, quantile, threshold, distances) ==
  IF quantile[1] <= 0 \/ quantile[1] > quantile[2]
  THEN {[samples |-> <<>>, threshold |-> threshold, err |-> "ValueError"]}
  ELSE IF threshold = NoThreshold
  THEN {sample_quantile(n, distances, sorted_inds) : sorted_inds \in argsort(distances)}
  ELSE {sample_threshold(distances, threshold)}

\* the distances a call acquires: none when the quantile is refused
DistancesOf(n, quantile, threshold) ==
  IF quantile[1] <= 0 \/ quantile[1] > quantile[2] THEN {<<>>}
  ELSE [1..n_sim(n, quantile, threshold) -> 0..2]

Sample ==
  \E n \in 1..MaxAccept, quantile \in {<<0, 1>>, <<1, 2>>, <<2, 3>>, <<1, 1>>, <<2, 1>>},
     threshold \in {NoThreshold} \cup (1..2) :
    /\ quantile[1] > 0 => n_sim(n, quantile, threshold) <= MaxSim
    /\ \E distances \in DistancesOf(n, quantile, threshold) :
         \E r \in sample(n, quantile, threshold, distances) :
           call' = [op |-> "sample", self |-> 0, arg |-> <<n, quantile, threshold, distances>>,
                    ret |-> [samples |-> r.samples, threshold |-> r.threshold],
                    err |-> r.err]
    /\ UNCHANGED notcall

SpecRejection == InitGraph /\ [][Sample]_vars

\* ---- constructing a node that bears an observed value (ObservedMixin) ----
\* each step is one construction Simulator(name, fn, *parents, observed=...) or
\* Summary(name, fn, *parents, observed=...).  A parent is told by whether it
\* has the attribute observed and, when it has, by the 2-d array it holds.
MaxObservedParents == 3   \* most parents handed to a construction

ObservedParentLists ==
  UNION {[1..k -> {[has |-> FALSE, observed |-> <<>>]}
                    \cup {[has |-> TRUE, observed |-> <<<<v>>>>] : v \in 0..1}] :
           k \in 0..MaxObservedParents}

\* the keyword observed: None, a scalar, a row or a 2-d array
ObservedArgs ==
  {[given |-> FALSE, ndim |-> 0, value |-> <<>>],
   [given |-> TRUE, ndim |-> 0, value |-> <<0>>],
   [given |-> TRUE, ndim |-> 1, value |-> <<1>>],
   [given |-> TRUE, ndim |-> 2, value |-> <<<<1>>>>]}

\* np.array(value, ndmin=2): axes are put in front until there are two; a
\* scalar is held here as the one-element tuple of it
array_ndmin2(value, ndim) ==
  IF ndim < 2 THEN <<value>> ELSE value

\* self.operation({'data': observed})['data'].  simulator_operation reads
\* input_dict['random_state'] first, which this dict lacks; summary_operation
\* hands the tuple to the user's function, kept as the record of the application
operation_on_observed(cls, observed) ==
  IF cls = "Simulator"
  THEN [ret |-> <<>>, err |-> "KeyError"]
  ELSE [ret |-> [applied |-> cls, data |-> observed], err |-> ""]

\* ObservedMixin._inherit_observed: only parents[0] is asked for the attribute;
\* p.observed of a later parent without it raises AttributeError
inherit_observed(cls, ps) ==
  IF Len(ps) > 0 /\ ps[1].has
  THEN IF \E i \in 1..Len(ps) : ~ps[i].has
       THEN [ret |-> <<>>, err |-> "AttributeError"]
       ELSE operation_on_observed(cls, [i \in 1..Len(ps) |-> ps[i].observed])
  ELSE [ret |-> <<>>, err |-> "ValueError"]

\* ObservedMixin.__init__: ret is self.observed
ObservedMixin_init(cls, ps, observed) ==
  IF observed.given
  THEN [ret |-> array_ndmin2(observed.value, observed.ndim), err |-> ""]
  ELSE LET r == inherit_observed(cls, ps)
       IN IF r.err = "" THEN [ret |-> array_ndmin2(r.ret, 2), err |-> ""] ELSE r

NewSimulator ==
  \E ps \in ObservedParentLists, observed \in ObservedArgs :
    /\ call' = [op |-> "Simulator", self |-> 0, arg |-> <<ps, observed>>,
                ret |-> ObservedMixin_init("Simulator", ps, observed).ret,
                err |-> ObservedMixin_init("Simulator", ps, observed).err]
    /\ UNCHANGED notcall

NewSummary ==
  \E ps \in ObservedParentLists, observed \in ObservedArgs :
    /\ call' = [op |-> "Summary", self |-> 0, arg |-> <<ps, observed>>,
                ret |-> ObservedMixin_init("Summary", ps, observed).ret,
                err |-> ObservedMixin_init("Summary", ps, observed).err]
    /\ UNCHANGED notcall

SpecObserved == InitGraph /\ [][NewSimulator \/ NewSummary]_vars

\* ---- what the claims speak about ----
\* the chunk ranges of a cache, in list order, start at 0, are adjacent and not empty
IsPartition(chunks) ==
  \A i \in 1..Len(chunks) :
    /\ chunks[i].key[3] > 0
    /\ chunks[i].key[2] = (IF i = 1 THEN 0 ELSE chunks[i - 1].key[2] + chunks[i - 1].key[3])

\* the end of the index range the chunks cover
Covered(chunks) ==
  IF chunks = <<>> THEN 0 ELSE chunks[Len(chunks)].key[2] + chunks[Len(chunks)].key[3]

\* the row the chunks hold for sample index i
IndexRow(chunks, i) ==
  LET c == CHOOSE c \in {chunks[j] : j \in 1..Len(chunks)} :
             c.key[2] <= i /\ i < c.key[2] + c.key[3]
  IN c.data[i - c.key[2] + 1]

IsPrefix(s, t) == Len(s) <= Len(t) /\ \A i \in 1..Len(s) : s[i] = t[i]

\* the chunks a step appends to the cache of x
NewChunks(x) ==
  {delayed_outputs'[x][j] : j \in (Len(delayed_outputs[x]) + 1)..Len(delayed_outputs'[x])}

\* the step is a reset that reaches x
ResetReaches(x) ==
  \E y \in Nodes, propagate \in BOOLEAN : x \in ResetTargets(y, propagate) /\ ResetCall(y, propagate)

\* the step is a completion callback of the store of x
PostTaskOf(x) == \E f \in BagToSet(futures) : f.node = x /\ PostTaskStep(f)

\* what a read of [a, b) of x yields now: kind and rows of the handle
ReadNow(x, sl) ==
  LET h == cache_getitem(Current, x, sl).h IN [kind |-> h.kind, rows |-> h.rows]

\* the same read in the state a step leads to
After ==
  [outs |-> delayed_outputs', mask |-> stored_mask', subs |-> substreams',
   mem |-> persisted', pend |-> pending_persisted', buf |-> local_store',
   oname |-> output_name', fut |-> futures', comp |-> computing', err |-> ""]

ReadAfter(x, sl) ==
  LET h == cache_getitem(After, x, sl).h IN [kind |-> h.kind, rows |-> h.rows]

\* the positions of the chunks of the stochastic nodes
ChunkPositions(outs) ==
  UNION {{<<x, i>> : i \in 1..Len(outs[x])} : x \in {y \in Nodes : Stochastic(y)}}

\* every keyed handle in existence: the chunk outputs and what the reads build
AllHandles ==
  UNION {{OutputHandle(delayed_outputs[x][i]) : i \in 1..Len(delayed_outputs[x])}
           \cup UNION {cache_getitem(Current, x, sl).built : sl \in Slices} : x \in Nodes}

\* C1: in every reachable state, the chunks of every node's cache, in list
\* order, start at 0, each starts where the previous one ends and each has
\* positive length; the flag list runs parallel to the chunk list.
C1_CacheIsPartition ==
  \A x \in Nodes :
    /\ IsPartition(delayed_outputs[x])
    /\ Len(stored_mask[x]) = Len(delayed_outputs[x])

\* a node with a store whose cache holds two chunks and reaches past its
\* generated index, the first chunk made when sub-streams had already been
\* handed out (after a reset, or after another node's chunk)
C1_Witness ==
  \E x \in Nodes :
    /\ store_kind[x] # "none"
    /\ Len(delayed_outputs[x]) = 2
    /\ delayed_outputs[x][1].sub >= 1
    /\ generate_index[x] < CacheLen(delayed_outputs[x])

\* C2: for every node and every range [a, b) inside its cache, the read of
\* [a, b) is the data array whose rows are the rows of the indices a..b-1, in
\* index order.
C2_ReadIsIndexRows ==
  \A x \in Nodes : \A sl \in Slices :
    sl[2] <= CacheLen(delayed_outputs[x]) =>
      ReadNow(x, sl) = [kind |-> "array",
                        rows |-> [k \in 1..(sl[2] - sl[1]) |->
                                    IndexRow(delayed_outputs[x], sl[1] + k - 1)]]

C4_StoreReadIsChunkData ==
  \A x \in Nodes : \A i \in 1..Len(delayed_outputs[x]) :
    stored_mask[x][i] =>
      LET c == delayed_outputs[x][i]
          before == get_named_item(c, "data")
          after == store_read_data(Current, x, get_key_slice(c.key))
      IN after.kind = before.kind /\ after.rows = before.rows

\* C5: the chunks of stochastic nodes all hold sub-streams below the counter;
\* every chunk a step appends holds a sub-stream the counter had not handed out
\* before the step and has handed out after it; and no two chunks, of the same
\* node or of two nodes, hold the same sub-stream.
C5_SubstreamsNeverReused ==
  [][/\ \A p \in ChunkPositions(delayed_outputs) :
          delayed_outputs[p[1]][p[2]].sub \in 0..(substreams - 1)
     /\ \A x \in Nodes : Stochastic(x) =>
          \A c \in NewChunks(x) : substreams <= c.sub /\ c.sub < substreams'
     /\ \A p, q \in ChunkPositions(delayed_outputs') :
          p # q => delayed_outputs'[p[1]][p[2]].sub # delayed_outputs'[q[1]][q[2]].sub]_vars

\* two nodes of the same name hold a chunk of the same key each, one of them
\* made after a reset, and the sub-streams of the two chunks differ
C5_Witness ==
  \E x, y \in Nodes :
    /\ x # y /\ name[x] = name[y]
    /\ Len(delayed_outputs[x]) = 1 /\ Len(delayed_outputs[y]) = 1
    /\ delayed_outputs[x][1].key = delayed_outputs[y][1].key
    /\ delayed_outputs[x][1].sub = 2
    /\ delayed_outputs[y][1].sub < 2

\* C6 as stated: when reset, generate(n) has run twice in a row on a stochastic
\* node, the second generate returned what the first returned.
C6_RunsAreIdentical ==
  (prevrun.phase = "run2" /\ Stochastic(prevrun.node)) => prevrun.ret2 = prevrun.ret1

\* C6: when reset, generate(n) has run twice in a row on a stochastic node, the
\* two outputs have the same key and the same number of rows, and every row of
\* the second was drawn from a sub-stream handed out later than the sub-stream
\* of the same row of the first.
C6_RunsDrawFreshSubstreams ==
  (prevrun.phase = "run2" /\ Stochastic(prevrun.node)) =>
    /\ prevrun.ret2.key = prevrun.ret1.key
    /\ prevrun.ret2.kind = prevrun.ret1.kind
    /\ Len(prevrun.ret2.rows) = Len(prevrun.ret1.rows)
    /\ \A k \in 1..Len(prevrun.ret1.rows) :
         prevrun.ret2.rows[k].sub > prevrun.ret1.rows[k].sub

\* the second run of reset, generate(n) has returned a data array of rows
C6_Witness ==
  /\ prevrun.phase = "run2"
  /\ Stochastic(prevrun.node)
  /\ prevrun.ret2.kind = "array"
  /\ Len(prevrun.ret2.rows) = prevrun.n

\* C7: any two handles with the same key are the same computation: the same
\* kind of value with the same rows.
C7_KeysDenoteOneValue ==
  \A h1, h2 \in AllHandles : h1.key = h2.key => h1 = h2

\* C8: in every reachable state, generate(n, batch_size) called on any node x
\* with generated index a ends with the index at a + n and returns the handle of
\* the range [a, a + n), whatever the batch_size and the cache before the call.
C8_GenerateAdvancesByN ==
  \A x \in Nodes, n \in Counts, bs \in BatchSizes :
    generate_index[x] + n <= MaxLen =>
      LET a == generate_index[x]
          r == generate(Current, x, a, n, bs, NoValues)
      IN /\ r.index = a + n
         /\ r.sl = <<a, a + n>>
         /\ r.ret.kind # "raise"
         /\ get_key_slice(r.ret.key) = <<a, a + n>>

\* the index of a node stands at 1 while its cache is one chunk over [0, 2):
\* the range generated was in the cache before the call
C8_Witness ==
  \E x \in Nodes :
    /\ generate_index[x] = 1
    /\ Len(delayed_outputs[x]) = 1
    /\ delayed_outputs[x][1].key[3] = 2

\* C9: in every reachable state, generate(n, batch_size=k) called on any node x
\* with generated index a keeps the chunks of x, appends only chunks of length at
\* most k (n when no batch_size is given), and leaves the cache ending at a + n,
\* or where it ended before the call when that was further.
C9_ChunksWithinBatchSize ==
  \A x \in Nodes, n \in Counts, bs \in BatchSizes :
    generate_index[x] + n <= MaxLen =>
      LET a == generate_index[x]
          old == delayed_outputs[x]
          new == generate(Current, x, a, n, bs, NoValues).S.outs[x]
      IN /\ IsPrefix(old, new)
         /\ \A j \in (Len(old) + 1)..Len(new) : new[j].key[3] <= (IF bs = 0 THEN n ELSE bs)
         /\ CacheLen(new) = Max2(CacheLen(old), a + n)

\* a node without parents generated up to index 2 in two chunks of length 1
\* made one after the other
C9_Witness ==
  \E x \in Nodes :
    /\ parents[x] = <<>>
    /\ generate_index[x] = 2
    /\ Len(delayed_outputs[x]) = 2
    /\ delayed_outputs[x][2].sub = delayed_outputs[x][1].sub + 1

\* C10 as stated: after acquire(n, starting) with starting other than 0 the
\* generated index is what it was before the call.
C10_AcquireKeepsIndex ==
  prevrun.phase = "acquire" => generate_index[prevrun.node] = prevrun.index0

\* C10: after acquire(n, starting) with starting other than 0 the generated
\* index is the larger of its value before the call and starting + n.
C10_AcquireAdvancesToStop ==
  prevrun.phase = "acquire" =>
    generate_index[prevrun.node] = Max2(prevrun.index0, prevrun.starting + prevrun.n)

\* acquire with a starting index other than 0 has moved the generated index
C10_Witness ==
  /\ prevrun.phase = "acquire"
  /\ prevrun.starting # 0
  /\ generate_index[prevrun.node] > prevrun.index0


\* C11: in every reachable state, acquire(n, starting) called on any node x ends
\* with the generated index of x at the larger of its old value and starting + n
\* and with the cache of x covering [0, starting + n); and when starting + n is
\* not above the old index the call changes nothing: no cache, no flag, no
\* store, no sub-stream is touched and nothing is raised.
C11_AcquireGeneratesShortfall ==
  \A x \in Nodes, n \in Counts, starting \in 0..(MaxLen - 1), bs \in BatchSizes :
    starting + n <= MaxLen =>
      LET r == acquire(Current, x, generate_index[x], n, starting, bs)
      IN /\ r.index = Max2(generate_index[x], starting + n)
         /\ IsPartition(r.S.outs[x])
         /\ CacheLen(r.S.outs[x]) >= starting + n
         /\ r.ret.kind # "raise"
         /\ starting + n <= generate_index[x] => r.S = Current

\* a node on a parent stands at index 1 with its cache and its parent's cache
\* covering [0, 2) in two chunks: acquire(1) is a pure read there and
\* acquire(2) has a shortfall of 1 that is already in the cache
C11_Witness ==
  \E x \in Nodes :
    /\ parents[x] # <<>>
    /\ generate_index[x] = 1
    /\ Len(delayed_outputs[x]) = 2
    /\ Len(delayed_outputs[parents[x][1]]) = 2


\* y is x or has x among its ancestors, following the parent lists
RECURSIVE IsDescendant(_, _)
IsDescendant(y, x) ==
  y = x \/ \E i \in 1..Len(parents[y]) : IsDescendant(parents[y][i], x)

\* C12: a step reset(propagate=True) on node x leaves x and every descendant of
\* x with generated index 0, an empty chunk list and an empty flag list, so that
\* an acquire made next on any of them appends chunks (drawing, on a stochastic
\* node, a sub-stream not handed out before); every other node keeps its
\* index, its chunks and its flags.
C12_ResetPropagates ==
  [][\A x \in Nodes :
       ResetCall(x, TRUE) =>
         \A y \in Nodes :
           IF IsDescendant(y, x)
           THEN /\ generate_index'[y] = 0
                /\ delayed_outputs'[y] = <<>>
                /\ stored_mask'[y] = <<>>
                /\ LET r == acquire(After, y, 0, 1, 0, 0)
                   IN /\ Len(r.S.outs[y]) = 1
                      /\ Stochastic(y) => r.S.outs[y][1].sub >= substreams
           ELSE /\ generate_index'[y] = generate_index[y]
                /\ delayed_outputs'[y] = delayed_outputs[y]
                /\ stored_mask'[y] = stored_mask[y]]_vars

\* in the chain the root still holds its chunk while the simulator, which had
\* drawn a sub-stream for a chunk of its own, and the summary are empty again
C12_Witness ==
  /\ 3 \in Nodes
  /\ Len(delayed_outputs[1]) = 1
  /\ substreams >= 2
  /\ delayed_outputs[2] = <<>> /\ generate_index[2] = 0
  /\ delayed_outputs[3] = <<>> /\ generate_index[3] = 0

\* C13: a step reset(propagate=False) on node x leaves x with generated index
\* 0, an empty chunk list and an empty flag list, and every other node, the
\* descendants of x among them, with its index, its chunks and its flags as
\* they were.
C13_ResetAloneTouchesOneNode ==
  [][\A x \in Nodes :
       ResetCall(x, FALSE) =>
         /\ generate_index'[x] = 0
         /\ delayed_outputs'[x] = <<>>
         /\ stored_mask'[x] = <<>>
         /\ \A y \in Nodes \ {x} :
              /\ generate_index'[y] = generate_index[y]
              /\ delayed_outputs'[y] = delayed_outputs[y]
              /\ stored_mask'[y] = stored_mask[y]]_vars

\* in the chain the simulator is empty again while the summary computed from
\* it still holds its chunk
C13_Witness ==
  /\ 3 \in Nodes
  /\ delayed_outputs[2] = <<>> /\ generate_index[2] = 0
  /\ Len(delayed_outputs[3]) >= 1


\* the chunks handed to append: any start and any positive length up to MaxLen,
\* under the node's name
AppendInputs(x) ==
  {[key |-> <<name[x], st, n>>, sub |-> NoSub, data |-> [k \in 1..n |-> ZeroRow]] :
     st \in 0..MaxLen, n \in 1..MaxLen}

\* C14: in every reachable state and for every chunk, append on the cache of
\* any node raises ValueError and changes nothing (no list, no store, no
\* future) when the chunk does not start at the cache length; otherwise it
\* raises nothing, puts the chunk last with a flag beside it, grows the length
\* by the chunk's length and hands the chunk to the store, if there is one.
C14_AppendChecksStart ==
  \A x \in Nodes : \A c \in AppendInputs(x) :
    LET S1 == cache_append(Current, x, c)
    IN IF c.key[2] # CacheLen(delayed_outputs[x])
       THEN S1 = Raise(Current, "ValueError")
       ELSE /\ S1.err = ""
            /\ S1.outs[x] = Append(delayed_outputs[x], c)
            /\ Len(S1.mask[x]) = Len(S1.outs[x])
            /\ CacheLen(S1.outs[x]) = CacheLen(delayed_outputs[x]) + c.key[3]
            /\ store_kind[x] = "memory" => \E i \in 1..Len(S1.mem[x]) : S1.mem[x][i] = c
            /\ store_kind[x] = "local" =>
                 /\ c.key \in S1.pend[x]
                 /\ BagCardinality(S1.fut) = BagCardinality(futures) + 1

\* a node with a store whose cache has length 1 while its completion callback
\* is still to come or has come: a chunk starting at 0 overlaps, one starting
\* at 2 leaves a gap, one starting at 1 fits
C14_Witness ==
  \E x \in Nodes :
    /\ store_kind[x] # "none"
    /\ CacheLen(delayed_outputs[x]) = 1
    /\ generate_index[x] = 1


\* node p stands somewhere in the parent list of c
IsParentOf(p, c) == \E i \in 1..Len(parents[c]) : parents[c][i] = p

\* C15: in every reachable graph, p occurs in c.parents if and only if c is in
\* p.children.
C15_EdgeSymmetry ==
  \A p \in Nodes, c \in Nodes : IsParentOf(p, c) <=> c \in children[p]

\* what C16 says of the graph G that x.replace_by(node, transfer_children=True)
\* leaves: the call did not raise, x is left without children, node has every
\* former child of x, and the parent list of every former child has node where
\* x stood and the other parents where they stood
ReplacedAtPosition(G, x, node) ==
  /\ G.err = ""
  /\ G.children[x] = {}
  /\ children[x] \subseteq G.children[node]
  /\ \A c \in children[x] :
       G.parents[c] = [i \in 1..Len(parents[c]) |->
                         IF parents[c][i] = x THEN node ELSE parents[c][i]]

\* C16: in every reachable graph, every x.replace_by(node,
\* transfer_children=True), with node another node than x, x not its own parent
\* and node not a child of x, puts node at the position of x in the parent
\* list of every child of x, keeps the other parents at their positions, and
\* leaves x without children and node with every former child of x.
C16_ReplaceByKeepsPosition ==
  \A x \in Nodes, node \in Nodes, transfer_parents \in BOOLEAN :
    (x # node /\ ~IsParentOf(x, x) /\ ~IsParentOf(x, node)) =>
      \A G \in replace_by(GraphNow, x, node, transfer_parents, TRUE) :
        ReplacedAtPosition(G, x, node)

\* C17: in every reachable graph, c.remove_parent(p) with p a node that is not
\* in the parent list of c fails with the not-found error and changes no
\* parent list and no child set; with p in the parent list it does not fail,
\* returns a position p held, deletes that position from the parent list of c
\* and changes no other parent list and no child set but that of p.
C17_RemoveParentByNode ==
  \A c \in Nodes, p \in Nodes :
    LET G == remove_parent_node(GraphNow, c, p)
    IN  IF ~IsParentOf(p, c)
        THEN /\ G.err = "Exception"
             /\ G.parents = parents
             /\ G.children = children
        ELSE /\ G.err = ""
             /\ G.ret \in PositionsOf(parents[c], p)
             /\ G.parents = [parents EXCEPT ![c] = DeleteAt(@, G.ret)]
             /\ \A y \in Nodes \ {p} : G.children[y] = children[y]
             /\ G.children[p] \subseteq children[p]

\* the nodes reached from the nodes in seen by following neighbours
RECURSIVE ReachableFrom(_)
ReachableFrom(seen) ==
  IF UNION {neighbours(y) : y \in seen} \subseteq seen THEN seen
  ELSE ReachableFrom(seen \cup UNION {neighbours(y) : y \in seen})

\* C18: in every reachable graph, whatever the order in which neighbours are
\* visited, x.component holds for every node reachable from x a node carrying
\* its name, and holds no name twice.
C18_ComponentCoversReachableNames ==
  \A x \in Nodes : \A c \in component(x) :
    /\ \A y \in ReachableFrom({x}) : \E z \in c : name[z] = name[y]
    /\ \A y \in c, z \in c : name[y] = name[z] => y = z

\* the name and the range a logged key call asks a key for
AskedName ==
  IF call.op = "make_key" THEN call.arg[1]
  ELSE IF call.op = "reset_key_slice" THEN call.arg[1][1]
  ELSE call.arg[2]

AskedRange ==
  IF call.op = "reset_key_name" THEN <<call.arg[1][2], call.arg[1][2] + call.arg[1][3]>>
  ELSE call.arg[2]

\* C19: every call of make_key, reset_key_slice or reset_key_name that asks for
\* a key over a range of zero or negative length has failed with ValueError,
\* and every other one has returned the key (name, start, length).
C19_KeysRejectEmptyRanges ==
  call.op \in {"make_key", "reset_key_slice", "reset_key_name"} =>
    IF AskedRange[2] - AskedRange[1] <= 0
    THEN call.err = "ValueError"
    ELSE /\ call.err = ""
         /\ call.ret = <<AskedName, AskedRange[1], AskedRange[2] - AskedRange[1]>>

\* the future LocalDataStore.write attaches its callback to for a chunk of x
FutureOf(x, chunk) == [node |-> x, key |-> chunk.key, data |-> chunk.data]

\* the futures of the chunks a step hands to the local stores
NewFutures ==
  SetToBag(UNION {{FutureOf(x, c) : c \in NewChunks(x)} :
                    x \in {y \in Nodes : store_kind[y] = "local"}})

\* the stored flags of the chunks a step appends to the cache of x
NewFlags(x) ==
  {stored_mask'[x][j] : j \in (Len(delayed_outputs[x]) + 1)..Len(delayed_outputs'[x])}

\* a step either hands chunks to stores and returns (the callback of every
\* chunk handed to a MemoryStore has been called, that of every chunk handed to
\* a LocalDataStore is attached to one pending future and has not been
\* called), or hands over nothing and takes one pending future away
WriteDoesNotWait ==
  \/ /\ futures' = futures (+) NewFutures
     /\ \A x \in Nodes : store_kind[x] = "memory" => NewFlags(x) \subseteq {TRUE}
     /\ \A x \in Nodes : store_kind[x] = "local" => NewFlags(x) \subseteq {FALSE}
  \/ /\ \A x \in Nodes : NewChunks(x) = {}
     /\ \E f \in BagToSet(futures) : futures' = futures (-) SetToBag({f})

\* _post_task, run for a pending future, takes that future away and calls the
\* done callback with its key: the chunk's flag is set, or the callback itself
\* raises LookupError because the cache no longer holds one chunk of that key
PostTaskCallsBack ==
  \A f \in BagToSet(futures) :
    LET S == post_task(Current, f)
    IN /\ S.fut = futures (-) SetToBag({f})
       /\ \/ S.err = "LookupError"
          \/ /\ S.err \in {"", "KeyError"}
             /\ \E i \in 1..Len(S.outs[f.node]) :
                  S.outs[f.node][i].key = f.key /\ S.mask[f.node][i]

\* C20: every chunk handed to a store by write gets its completion callback
\* called exactly once: at once by MemoryStore.write; by the one future
\* LocalDataStore.write returns with, which stays pending until _post_task
\* takes it away and calls the callback, and every pending future is
\* eventually taken away.
C20_CallbackOncePerWrite ==
  /\ [][WriteDoesNotWait]_vars
  /\ []PostTaskCallsBack
  /\ (futures # EmptyBag) ~> (futures = EmptyBag)

\* two chunks of a node with a LocalDataStore whose callbacks are pending
C20_Witness ==
  \E x \in Nodes :
    /\ store_kind[x] = "local"
    /\ Len(delayed_outputs[x]) = 2
    /\ \A j \in 1..2 : /\ BagIn(FutureOf(x, delayed_outputs[x][j]), futures)
                        /\ ~stored_mask[x][j]

\* C21: in every reachable state, a chunk of a node with a MemoryStore is
\* flagged as persisted only when the scheduler has finished its computation.
C21_FlagOnlyAfterComputation ==
  \A x \in Nodes :
    store_kind[x] = "memory" =>
      \A i \in 1..Len(delayed_outputs[x]) :
        stored_mask[x][i] => delayed_outputs[x][i].key \notin computing[x]

\* chunk i of x, handed to a LocalDataStore, is in the cache before and after
\* the step, unflagged before it, and its completion has not arrived: its
\* future is pending before and after the step
PersistOutstanding(x, i) ==
  /\ store_kind[x] = "local"
  /\ ~stored_mask[x][i]
  /\ i <= Len(delayed_outputs'[x])
  /\ delayed_outputs'[x][i] = delayed_outputs[x][i]
  /\ BagIn(FutureOf(x, delayed_outputs[x][i]), futures)
  /\ BagIn(FutureOf(x, delayed_outputs[x][i]), futures')

\* C22: whatever step is taken while the completion of a chunk's persistence
\* has not arrived, the chunk stays unflagged, a read of its range yields the
\* chunk's own data, no second future is made for it, and the cache stays a
\* gap-free partition.
C22_FailedPersistStaysLive ==
  [][\A x \in Nodes : \A i \in 1..Len(delayed_outputs[x]) :
       PersistOutstanding(x, i) =>
         /\ ~stored_mask'[x][i]
         /\ ReadAfter(x, get_key_slice(delayed_outputs[x][i].key)).rows
              = delayed_outputs[x][i].data
         /\ CopiesIn(FutureOf(x, delayed_outputs[x][i]), futures') = 1
         /\ IsPartition(delayed_outputs'[x])]_vars

\* the values supplied for the nodes named nms over n samples: row k of the
\* node named nm carries a tag of its own
ValuesFor(nms, n) ==
  [nm \in nms |->
     [k \in 1..n |-> ForcedRow(k + MaxLen * (CHOOSE x \in Nodes : name[x] = nm))]]

\* node d and its ancestors
WithAncestors(d) == {x \in Nodes : IsDescendant(d, x)}

\* what C23 says of the caches outs that d.generate(n, with_values=W) leaves,
\* a being the generated index before the call: over [a, a + n) every node
\* among d and its ancestors has data, the supplied rows when W names it, and
\* otherwise rows of its own operation made from its parents' rows
ValuesTaken(outs, d, a, n, W) ==
  \A x \in WithAncestors(d) : \A i \in a..(a + n - 1) :
    /\ i < Covered(outs[x])
    /\ IF name[x] \in DOMAIN W
       THEN IndexRow(outs[x], i) = W[name[x]][i - a + 1]
       ELSE /\ IndexRow(outs[x], i).node = x
            /\ \A j \in 1..Len(parents[x]) :
                 /\ i < Covered(outs[parents[x][j]])
                 /\ IndexRow(outs[x], i).args[j] = IndexRow(outs[parents[x][j]], i)

\* C23: in every reachable state, generate(n, with_values=W) on any node d
\* that, like its ancestors, has no store, with W naming any of d and its
\* ancestors, raises nothing and leaves every named node with exactly the
\* supplied values over [old index, old index + n) and every other node
\* computed from them.
C23_GenerateTakesValues ==
  \A d \in Nodes, n \in Counts, bs \in BatchSizes :
    (generate_index[d] + n <= MaxLen /\ \A x \in WithAncestors(d) : store_kind[x] = "none") =>
      \A nms \in (SUBSET {name[x] : x \in WithAncestors(d)}) \ {{}} :
        LET r == generate(Current, d, generate_index[d], n, bs, ValuesFor(nms, n))
        IN /\ r.S.err = ""
           /\ ValuesTaken(r.S.outs, d, generate_index[d], n, ValuesFor(nms, n))

\* C24: in every reachable state, with x any simulator whose cache covers
\* [0, starting + n): x.acquire(n, starting) changes nothing at all; y.acquire(n,
\* starting) on any descendant y of x leaves the chunks of x as they are; the
\* acquires of a Rejection.sample needing n simulations, made when the distance
\* node and the parameter node are generated up to n, change nothing; and the
\* chunks of x hold every sample index once.
C24_NoSecondSimulation ==
  \A x \in Nodes, n \in Counts, starting \in 0..(MaxLen - 1), bs \in BatchSizes :
    (Stochastic(x) /\ starting + n <= CacheLen(delayed_outputs[x])) =>
      /\ acquire(Current, x, generate_index[x], n, starting, bs).S = Current
      /\ \A y \in Nodes :
           IsDescendant(y, x) =>
             LET S1 == acquire(Current, y, generate_index[y], n, starting, bs).S
             IN S1.outs[x] = delayed_outputs[x] /\ S1.err = ""
      /\ \A y \in Nodes :
           (IsDescendant(y, x) /\ generate_index[x] >= n /\ generate_index[y] >= n) =>
             get_distances(Current, generate_index, y, x, n, bs)
               = [S |-> Current, index |-> generate_index]
      /\ IsPartition(delayed_outputs[x])

\* the simulator and the summary built on it are generated up to 2, the
\* simulator in two chunks: every range up to 2 is materialised on both
C24_Witness ==
  /\ 3 \in Nodes
  /\ generate_index[2] = 2 /\ generate_index[3] = 2
  /\ Len(delayed_outputs[2]) = 2
  /\ generate_index[1] = 2

\* the logged call is sample(n, quantile=a/b) with a quantile in ]0, 1] and no
\* threshold
QuantileCall ==
  /\ call.op = "sample"
  /\ call.arg[3] = NoThreshold
  /\ 0 < call.arg[2][1] /\ call.arg[2][1] <= call.arg[2][2]

\* the positions of the draws parameter k was returned from
AcceptedOf(k) == {call.ret.samples[k][i].index : i \in 1..Len(call.ret.samples[k])}

\* C25: every call sample(n, quantile=q) without a threshold has acquired
\* int(n / q) draws, raised nothing, returned for every parameter n rows of n
\* different draws, none of them with a larger discrepancy than a draw left
\* out, the same draws in the same order for every parameter, and as threshold
\* the n-th smallest discrepancy of the draws.
C25_RejectionTakesSmallest ==
  QuantileCall =>
    LET n == call.arg[1]
        distances == call.arg[4]
    IN /\ Len(distances) = (n * call.arg[2][2]) \div call.arg[2][1]
       /\ call.err = ""
       /\ \A k \in 1..ParameterCount :
            /\ Len(call.ret.samples[k]) = n
            /\ Cardinality(AcceptedOf(k)) = n
            /\ \A i \in 1..n : call.ret.samples[k][i].param = k
            /\ \A i \in 1..n : call.ret.samples[k][i].index = call.ret.samples[1][i].index
            /\ \A i \in AcceptedOf(k), j \in (1..Len(distances)) \ AcceptedOf(k) :
                 distances[i] <= distances[j]
       /\ Cardinality({j \in 1..Len(distances) : distances[j] < call.ret.threshold}) < n
       /\ Cardinality({j \in 1..Len(distances) : distances[j] <= call.ret.threshold}) >= n

\* sample(2, quantile=1/2) on four draws of which the second smallest
\* discrepancy occurs twice: one of the two equal draws is left out
C25_Witness ==
  /\ QuantileCall
  /\ call.arg[1] = 2 /\ Len(call.arg[4]) = 4
  /\ Cardinality({j \in 1..4 : call.arg[4][j] < call.ret.threshold}) = 1
  /\ Cardinality({j \in 1..4 : call.arg[4][j] = call.ret.threshold}) = 2

\* a node bearing an observed value was constructed without the keyword observed
InheritCall == call.op \in {"Simulator", "Summary"} /\ ~call.arg[2].given

\* C26: a construction without an explicit observed value fails with the
\* missing-observed error (ValueError) when there is no parent or when any
\* parent has no observed value, and otherwise succeeds with the node's own
\* operation applied once to the tuple of the parents' observed values.
C26_InheritsOrMissingObserved ==
  InheritCall =>
    LET ps == call.arg[1]
    IN IF Len(ps) = 0 \/ \E i \in 1..Len(ps) : ~ps[i].has
       THEN call.err = "ValueError"
       ELSE /\ call.err = ""
            /\ call.ret = [applied |-> call.op,
                           data |-> [i \in 1..Len(ps) |-> ps[i].observed]]

\* a Summary whose first parent has an observed value and whose second has none
C26_Witness ==
  /\ InheritCall
  /\ call.op = "Summary"
  /\ Len(call.arg[1]) = 2
  /\ call.arg[1][1].has
  /\ ~call.arg[1][2].has

\* C27: every chunk of a Constant holds as many rows as its sample count, each
\* the fixed value, and a read of [a, b) inside the cache yields b - a copies
\* of the value.
C27_ConstantBroadcast ==
  \A x \in {y \in Nodes : class[y] = "Constant"} :
    /\ \A i \in 1..Len(delayed_outputs[x]) :
         delayed_outputs[x][i].data
           = [k \in 1..delayed_outputs[x][i].key[3] |-> ConstantRow(x)]
    /\ \A sl \in Slices :
         sl[2] <= CacheLen(delayed_outputs[x]) =>
           ReadNow(x, sl) = [kind |-> "array", rows |-> [k \in 1..slen(sl) |-> ConstantRow(x)]]

\* a Constant holds a chunk of two samples
C27_Witness ==
  \E x \in {y \in Nodes : class[y] = "Constant"} :
    \E i \in 1..Len(delayed_outputs[x]) : delayed_outputs[x][i].key[3] = 2

\* C28: every step x.get_slice(sl) leaves every generated index as it was,
\* keeps the chunks the cache of x held, in place and unchanged, adds at most
\* one chunk after them, of range [cache length before, sl.stop), and adds none
\* when the cache already reached sl.stop.
C28_GetSliceAddsTheRest ==
  [][\A x \in Nodes, sl \in Slices :
       GetSliceCall(x, sl) =>
         /\ generate_index' = generate_index
         /\ Len(delayed_outputs'[x]) >= Len(delayed_outputs[x])
         /\ Len(delayed_outputs'[x]) <= Len(delayed_outputs[x]) + 1
         /\ SubSeq(delayed_outputs'[x], 1, Len(delayed_outputs[x])) = delayed_outputs[x]
         /\ CacheLen(delayed_outputs[x]) >= sl[2] => delayed_outputs'[x] = delayed_outputs[x]
         /\ Len(delayed_outputs'[x]) = Len(delayed_outputs[x]) + 1 =>
              get_key_slice(delayed_outputs'[x][Len(delayed_outputs'[x])].key)
                = <<CacheLen(delayed_outputs[x]), sl[2]>>]_vars

\* a node holds the chunk [0, 1) and then the chunk [1, 2) while its generated
\* index is 0: the second chunk was added by get_slice after the first
C28_Witness ==
  \E x \in Nodes :
    /\ generate_index[x] = 0
    /\ Len(delayed_outputs[x]) = 2
    /\ get_key_slice(delayed_outputs[x][2].key) = <<1, 2>>

\* the keys of the chunks of a cache
CacheKeys(chunks) == {chunks[i].key : i \in 1..Len(chunks)}

\* C29: in every reachable state, _set_stored called with a key that no chunk
\* of the cache has raises LookupError and leaves every chunk and every
\* persisted flag as it was; so does the delivery of a pending completion whose
\* key is no longer in the cache.
C29_UnknownKeyRaises ==
  /\ \A x \in Nodes, sl \in Slices :
       make_key(name[x], sl) \notin CacheKeys(delayed_outputs[x]) =>
         /\ set_stored(Current, x, make_key(name[x], sl)).err = "LookupError"
         /\ set_stored(Current, x, make_key(name[x], sl)).outs = delayed_outputs
         /\ set_stored(Current, x, make_key(name[x], sl)).mask = stored_mask
  /\ \A f \in BagToSet(futures) :
       f.key \notin CacheKeys(delayed_outputs[f.node]) =>
         /\ post_task(Current, f).err = "LookupError"
         /\ post_task(Current, f).outs = delayed_outputs
         /\ post_task(Current, f).mask = stored_mask

\* a completion is pending for a key that the cache of its node, holding a
\* flagged chunk, does not have
C29_Witness ==
  \E f \in BagToSet(futures) :
    /\ f.key \notin CacheKeys(delayed_outputs[f.node])
    /\ \E i \in 1..Len(stored_mask[f.node]) : stored_mask[f.node][i]

\* every chunk a step appends is handed to the store of its cache: its
\* computation is with the scheduler (MemoryStore) or a new future is pending
\* for it (LocalDataStore); a chunk appended to a cache without a store is
\* handed to nobody
AppendSubmitsStored ==
  \A x \in Nodes : \A c \in NewChunks(x) :
    /\ store_kind[x] = "memory" => c.key \in computing'[x]
    /\ store_kind[x] = "local" =>
         CopiesIn(FutureOf(x, c), futures') = CopiesIn(FutureOf(x, c), futures) + 1
    /\ store_kind[x] = "none" =>
         c.key \notin computing'[x] /\ ~BagIn(FutureOf(x, c), futures')

\* every chunk a step appends is submitted, with or without a store
AppendSubmitsAll ==
  \A x \in Nodes : \A c \in NewChunks(x) :
    c.key \in computing'[x] \/ BagIn(FutureOf(x, c), futures')

\* a chunk handed to a MemoryStore is flagged when write returns
MemoryFlagged ==
  \A x \in Nodes :
    store_kind[x] = "memory" => \A i \in 1..Len(stored_mask[x]) : stored_mask[x][i]

\* the cache of x holds an unflagged chunk at position i and has a store
FlagOutstanding(x, i) ==
  /\ x \in Nodes
  /\ store_kind[x] # "none"
  /\ i <= Len(delayed_outputs[x])
  /\ ~stored_mask[x][i]

\* position i of the cache of x is flagged, or a reset has emptied the cache
FlagSettled(x, i) ==
  /\ x \in Nodes
  /\ i > Len(delayed_outputs[x]) \/ stored_mask[x][i]

\* with callbacks eventually delivered, an unflagged chunk of a cache with a
\* store gets flagged unless the cache is reset first
FlagEventuallySet ==
  \A x \in 1..3, i \in 1..MaxLen : FlagOutstanding(x, i) ~> FlagSettled(x, i)

\* C30 as stated: every chunk appended to a cache is submitted for computation
\* at append time, and with a store attached its persisted flag eventually
\* becomes true unless the node is reset in the meantime.
C30_EveryChunkSubmitted ==
  /\ [][AppendSubmitsAll]_vars
  /\ FlagEventuallySet

\* C30, amended: every chunk appended to a cache with a store is handed to the
\* store at append time, a chunk appended to a cache without a store is not
\* submitted, a chunk handed to a MemoryStore is flagged at once, and with
\* callbacks eventually delivered every chunk of a cache with a store gets
\* flagged unless the cache is reset first.
C30_StoredChunkGetsFlagged ==
  /\ [][AppendSubmitsStored]_vars
  /\ []MemoryFlagged
  /\ FlagEventuallySet

\* a flagged chunk in the cache of a node with a LocalDataStore, no completion
\* pending, next to a chunk of a node without a store
C30_Witness ==
  \E x \in Nodes, y \in Nodes :
    /\ store_kind[x] = "local"
    /\ Len(delayed_outputs[x]) >= 1
    /\ stored_mask[x][1]
    /\ futures = EmptyBag
    /\ store_kind[y] = "none"
    /\ Len(delayed_outputs[y]) >= 1


\* C31: in every reachable state, a flagged chunk of a node with a store was
\* flagged by the completion of its own write: the completion of its own write
\* is no longer pending, and the store holds the chunk's own data for its range.
C31_FlagMeansOwnData ==
  \A x \in Nodes : \A i \in 1..Len(delayed_outputs[x]) :
    stored_mask[x][i] =>
      /\ store_kind[x] = "local" =>
           /\ ~BagIn(FutureOf(x, delayed_outputs[x][i]), futures)
           /\ BufferRows(local_store[x], get_key_slice(delayed_outputs[x][i].key))
                = delayed_outputs[x][i].data
      /\ store_kind[x] = "memory" =>
           \E j \in 1..Len(persisted[x]) : persisted[x][j] = delayed_outputs[x][i]

\* a flagged chunk of a node with a LocalDataStore while the completion of its
\* own write is still pending: the flag came from a completion left by a reset
C31_Witness ==
  \E x \in Nodes : \E i \in 1..Len(delayed_outputs[x]) :
    /\ store_kind[x] = "local"
    /\ stored_mask[x][i]
    /\ BagIn(FutureOf(x, delayed_outputs[x][i]), futures)


\* C32: in every reachable state the generated index of every node is at most
\* the length of its cache, and a reset leaves the cache of every node it
\* reaches empty (its index is set to 0 by the same call).
C32_IndexWithinCache ==
  /\ \A x \in Nodes : generate_index[x] <= CacheLen(delayed_outputs[x])
  /\ \A x \in Nodes, propagate \in BOOLEAN :
       \A y \in ResetTargets(x, propagate) :
         reset_all(Current, ResetTargets(x, propagate)).outs[y] = <<>>

\* one node was generated in two batches up to 2 while get_slice has pushed
\* the cache of another node ahead of its generated index
C32_Witness ==
  \E x \in Nodes, y \in Nodes :
    /\ generate_index[x] = 2
    /\ Len(delayed_outputs[x]) = 2
    /\ generate_index[y] < CacheLen(delayed_outputs[y])


\* the chunks of node p in the state S that its cache did not hold before
ChunksAdded(S, p) ==
  {S.outs[p][j] : j \in (Len(delayed_outputs[p]) + 1)..Len(S.outs[p])}

\* C33: with resets made with propagate=True only, in every reachable state
\* the cache of a node is no longer than the cache of any of its ancestors,
\* and a get_slice that builds the chunk [a, b) of a node makes every ancestor
\* add only chunks that start at a or later and are at most b - a long.
C33_ChildWithinParents ==
  /\ \A x \in Nodes, p \in Nodes :
       IsDescendant(x, p) => CacheLen(delayed_outputs[x]) <= CacheLen(delayed_outputs[p])
  /\ \A x \in Nodes, sl \in Slices :
       CacheLen(delayed_outputs[x]) < sl[2] =>
         \A p \in Nodes \ {x} :
           IsDescendant(x, p) =>
             \A c \in ChunksAdded(get_slice(Current, x, sl, NoValues).S, p) :
               /\ c.key[2] >= CacheLen(delayed_outputs[x])
               /\ c.key[3] <= sl[2] - CacheLen(delayed_outputs[x])

\* the summary and the simulator above it hold one sample and the node above
\* them two: building the summary's chunk [1, 2) makes the simulator add the
\* chunk [1, 2) and the node above it nothing
C33_Witness ==
  /\ 3 \in Nodes
  /\ CacheLen(delayed_outputs[3]) = 1
  /\ CacheLen(delayed_outputs[2]) = 1
  /\ CacheLen(delayed_outputs[1]) = 2
  /\ ChunksAdded(get_slice(Current, 3, <<0, 2>>, NoValues).S, 2) # {}


\* the row of ancestor p that went into the computation of a row of node y
RECURSIVE Fed(_, _, _)
Fed(row, y, p) ==
  IF y = p THEN row
  ELSE LET j == CHOOSE j \in 1..Len(parents[y]) : IsDescendant(parents[y][j], p)
       IN IF j \in 1..Len(row.args) THEN Fed(row.args[j], parents[y][j], p) ELSE BadRow

\* dist and par are what the two acquire calls of _get_distances returned: n
\* rows each, row i of the parameter being the one fed into row i of the distance
AlignedRets(dist, par, d, p, n) ==
  /\ par.S.err = ""
  /\ dist.ret.kind = "array" /\ par.ret.kind = "array"
  /\ Len(dist.ret.rows) = n /\ Len(par.ret.rows) = n
  /\ \A i \in 1..n : Fed(dist.ret.rows[i], d, p) = par.ret.rows[i]

\* the parameter is acquired in the state the acquire of the distance left
AlignedAfter(dist, d, p, n, bs) ==
  AlignedRets(dist, acquire(dist.S, p, generate_index[p], n, 0, bs), d, p, n)

\* C34: in every reachable state, for every distance node d, parameter node p
\* above it, n_samples and batch size, _get_distances returns n_samples
\* distances and n_samples parameter values, the i-th parameter value being
\* the one that was fed into the computation of the i-th distance.
C34_DistancesAligned ==
  \A d \in Nodes, p \in Nodes, n \in Counts, bs \in BatchSizes :
    (d # p /\ IsDescendant(d, p)) =>
      AlignedAfter(acquire(Current, d, generate_index[d], n, 0, bs), d, p, n, bs)

\* the simulator between the parameter and the summary has a MemoryStore and
\* holds a flagged chunk
C34_Witness ==
  /\ 3 \in Nodes
  /\ store_kind[2] = "memory"
  /\ Len(delayed_outputs[2]) >= 1
  /\ stored_mask[2][1]


\* the rows n.acquire(n) returns are computed, at every parent position, from
\* a row of the node that is the parent at that position now
FromParentsNow(r, c, n) ==
  /\ r.S.err = ""
  /\ r.ret.kind = "array"
  /\ Len(r.ret.rows) = n
  /\ \A i \in 1..n :
       /\ Len(r.ret.rows[i].args) = Len(parents[c])
       /\ \A j \in 1..Len(parents[c]) : r.ret.rows[i].args[j].node = parents[c][j]

\* C35: in every reachable state, replace_by calls included, the data a node
\* with parents returns for any range is computed from the output of the nodes
\* that are its parents now, not from a node that was replaced.
C35_ChildrenServeNewParent ==
  \A c \in Nodes, n \in Counts, bs \in BatchSizes :
    parents[c] # <<>> =>
      FromParentsNow(acquire(Current, c, generate_index[c], n, 0, bs), c, n)

\* the summary holds a chunk built from "x" and its parent is "y" now
C35_Witness ==
  /\ parents[3] = <<2>>
  /\ Len(delayed_outputs[3]) >= 1
  /\ delayed_outputs[3][1].data[1].args[1].node = 1

====
